---- MODULE Spec2Model ----
(***************************************************************************)
(* A model of the ledger engine of xuanle1016/golang-blockchain: blocks,   *)
(* proof of work, the Merkle commitment, transactions with their sign and  *)
(* verify protocol, the chain store with its tip pointer, and the UTXO     *)
(* index.                                                                  *)
(*                                                                         *)
(* Byte strings are tuples; nil and the empty slice are both <<>> (gob     *)
(* encodes them alike and the code only ever takes their length).  SHA-256 *)
(* and RIPEMD-160 are collision-free constructors over their input; the    *)
(* integer a hash is compared with the target as is a deterministic        *)
(* function of that input (IntHash).  Output indices are 0-based as in the *)
(* code, so output i of a transaction is Outputs[i + 1].                   *)
(***************************************************************************)
EXTENDS Integers, Sequences, FiniteSets, TLC

VARIABLES blocks, lh, LastHash, utxo, last, pow, sig, ret, net, fs

vars == <<blocks, lh, LastHash, utxo, last, pow, sig, ret, net, fs>>

(***************************************************************************)
(* Bounds of the model.                                                    *)
(***************************************************************************)
\* stored block records the chain store may hold
MaxBlocks == 3
\* heights a delivered block may claim: 0..MaxHeight
MaxHeight == 1
\* width in bits of the integer a hash is read as (256 in the code)
HashBits == 20
\* the amount the peers' transactions send
SendAmount == 40
\* bytes of a P-256 scalar or coordinate (32 in the code)
IntLen == 2
\* inputs of a transaction that is signed and verified
MaxInputs == 2
\* blocks of the chain the UTXO index is maintained over
MaxChain == 3
\* transactions of a block that is sealed and validated on its own
MaxTxs == 5
\* outputs of an entry of an index that is searched on its own
MaxEntry == 2

\* wallets: the owner of the genesis reward and one more
Wallets == {"A", "B"}

GenesisOwner == "A"

Nil == <<>>

(***************************************************************************)
(* Hashing and the wallet's derivations.                                   *)
(***************************************************************************)
Sha256(data) == <<"sha256", data>>

\* big-endian encoding of an integer on 64 bits
ToHex(num) == <<"int64", num>>

\* bytes.Join with the empty separator: the parts in order
Join(parts) == parts

PublicKeyHash(pubKey) == <<"ripemd160", Sha256(pubKey)>>

Checksum(payload) == <<"checksum", Sha256(Sha256(payload))>>

Base58Encode(input) == <<"base58", input>>

Base58Decode(input) == input[2]

\* Wallet.Address for a wallet whose public key is pubKey
Address(pubKey) ==
    LET pubHash == PublicKeyHash(pubKey)
        versionedHash == <<0, pubHash>>
        fullHash == <<0, pubHash, Checksum(versionedHash)>>
    IN  Base58Encode(fullHash)

(***************************************************************************)
(* Transactions.                                                           *)
(***************************************************************************)
\* TxOutput.Lock: the address decoded, version and checksum stripped
Lock(address) == Base58Decode(address)[2]

NewTXOutput(value, address) == [Value |-> value, PubKeyHash |-> Lock(address)]

IsLockedWithKey(out, pubKeyHash) == out.PubKeyHash = pubKeyHash

\* gob encoding of a Transaction: every field, in order
SerializeTx(tx) == <<"gobTx", tx.ID, tx.Inputs, tx.Outputs>>

DeserializeTransaction(data) ==
    [ID |-> data[2], Inputs |-> data[3], Outputs |-> data[4]]

\* Transaction.Hash: the hash of the encoding with the ID cleared
Hash(tx) == Sha256(SerializeTx([tx EXCEPT !.ID = Nil]))

\* an IsCoinbase that looks at the number of inputs only
IsCoinbaseOneInput(tx) == Len(tx.Inputs) = 1

IsCoinbase(tx) ==
    /\ Len(tx.Inputs) = 1
    /\ Len(tx.Inputs[1].ID) = 0
    /\ tx.Inputs[1].Out = -1

genesisData == << <<"data", "First Transaction from Genesis">> >>

\* CoinbaseTx: with empty data the 24 random bytes are drawn and then
\* dropped, the data becomes "Coins to <to>"
CoinbaseTx(to, data) ==
    LET d == IF data = Nil THEN << <<"data", "Coins to">>, to >> ELSE data
        txin == [ID |-> Nil, Out |-> -1, Signature |-> Nil, PubKey |-> d]
        txout == NewTXOutput(100, to)
        tx == [ID |-> Nil, Inputs |-> <<txin>>, Outputs |-> <<txout>>]
    IN  [tx EXCEPT !.ID = Hash(tx)]

(***************************************************************************)
(* The Merkle tree.  A computation that panics yields ok = FALSE.          *)
(***************************************************************************)
\* NewMerkleNode on a leaf
MerkleLeaf(datum) == Sha256(datum)

\* a parent that hashes its left child only
MerkleParentLeftOnly(left, right) == Sha256(<<left, left>>)

\* NewMerkleNode on two children: the hash of their hashes joined
MerkleParent(left, right) == Sha256(<<left, right>>)

\* one pass of the inner loop: nodes[j] and nodes[j+1] for j = 0, 2, ...;
\* with an odd number of nodes the last pair indexes past the end
MerkleLevel(nodes) ==
    IF Len(nodes) % 2 # 0
    THEN [ok |-> FALSE, nodes |-> <<>>]
    ELSE [ok |-> TRUE,
          nodes |-> [k \in 1..(Len(nodes) \div 2) |->
                        MerkleParent(nodes[2 * k - 1], nodes[2 * k])]]

RECURSIVE MerkleLoop(_, _, _)
\* the outer loop: len(data)/2 passes, whatever the number of nodes left
MerkleLoop(nodes, i, n) ==
    IF i >= n
    THEN [ok |-> TRUE, nodes |-> nodes]
    ELSE LET level == MerkleLevel(nodes)
         IN  IF level.ok THEN MerkleLoop(level.nodes, i + 1, n) ELSE level

NewMerkleTree(data) ==
    LET padded == IF Len(data) % 2 # 0
                  THEN Append(data, data[Len(data)])
                  ELSE data
        leaves == [k \in 1..Len(padded) |-> MerkleLeaf(padded[k])]
        done == MerkleLoop(leaves, 0, Len(padded) \div 2)
    IN  IF done.ok /\ Len(done.nodes) > 0
        THEN [ok |-> TRUE, root |-> done.nodes[1]]
        ELSE [ok |-> FALSE, root |-> Nil]

\* a HashTransactions that commits to an empty list as to a blank leaf
HashTransactionsBlank(txs) ==
    NewMerkleTree(IF Len(txs) = 0
                  THEN << <<"gobTx", Nil>> >>
                  ELSE [k \in 1..Len(txs) |-> SerializeTx(txs[k])])

\* Block.HashTransactions over the block's transaction list
HashTransactions(txs) ==
    NewMerkleTree([k \in 1..Len(txs) |-> SerializeTx(txs[k])])

(***************************************************************************)
(* Proof of work.                                                          *)
(***************************************************************************)
Difficulty == 18

\* the loop bound of Run: math.MaxInt64 in the code, the largest 32-bit
\* integer here
MaxInt64 == 2147483647

\* NewProof: 1 << (256 - Difficulty), on HashBits bits here
Target == 2 ^ (HashBits - Difficulty)

\* InitData with the Merkle root already computed
InitData(prevHash, root, nonce) ==
    Join(<<prevHash, root, ToHex(nonce), ToHex(Difficulty)>>)

\* what the previous-block hash and the Merkle root add to the integer
SaltPrev(prevHash) == IF prevHash = Nil THEN 0 ELSE 1 + prevHash[2][3][2]

SaltRoot(root) ==
    LET d == root[2][1][2]
    IN  IF Len(d) = 4 THEN Len(d[3]) + Len(d[4]) + d[4][1].Value ELSE 2

\* intHash.SetBytes(hash[:]): the hash of sealing data read as an integer of
\* HashBits bits.  One hash in 8 is below the target.
IntHash(hash) ==
    LET d == hash[2]
        mix == 3 * d[3][2] + d[4][2] + SaltPrev(d[1]) + SaltRoot(d[2])
    IN  (mix % 8) * (2 ^ (HashBits - 3)) + (mix % 4)

\* the loop's exit test
MeetsTarget(hash) == IntHash(hash) < Target

RECURSIVE RunFrom(_, _, _, _)
RunFrom(prevHash, root, nonce, hash) ==
    IF nonce < MaxInt64
    THEN LET h == Sha256(InitData(prevHash, root, nonce))
         IN  IF MeetsTarget(h)
             THEN [nonce |-> nonce, hash |-> h]
             ELSE RunFrom(prevHash, root, nonce + 1, h)
    ELSE [nonce |-> nonce, hash |-> hash]

\* a Run that returns the first nonce it tries
RunNoSearch(prevHash, root) ==
    [nonce |-> 0, hash |-> Sha256(InitData(prevHash, root, 0))]

\* ProofOfWork.Run
Run(prevHash, root) == RunFrom(prevHash, root, 0, Nil)

\* ProofOfWork.Validate
Validate(block) ==
    LET tree == HashTransactions(block.Transactions)
    IN  /\ tree.ok
        /\ MeetsTarget(Sha256(InitData(block.PrevHash, tree.root, block.Nonce)))

(***************************************************************************)
(* Blocks.  The timestamp is left out: it is not hashed and nothing reads  *)
(* it.                                                                     *)
(***************************************************************************)
NoBlock == [Hash |-> Nil, Transactions |-> <<>>, PrevHash |-> Nil,
            Nonce |-> 0, Height |-> 0]

\* CreateBlock; ok = FALSE when the Merkle tree panics
CreateBlock(txs, prevHash, height) ==
    LET tree == HashTransactions(txs)
        found == Run(prevHash, tree.root)
    IN  IF tree.ok
        THEN [ok |-> TRUE,
              block |-> [Hash |-> found.hash, Transactions |-> txs,
                         PrevHash |-> prevHash, Nonce |-> found.nonce,
                         Height |-> height]]
        ELSE [ok |-> FALSE, block |-> NoBlock]

Genesis(coinbase) == CreateBlock(<<coinbase>>, Nil, 0)

\* gob encoding of a Block and its decoding; decoding bytes that are not the
\* encoding of a Block is an error, which Deserialize hands to Handle
Serialize(block) == <<"gobBlock", block>>

Deserialize(data) ==
    IF Len(data) > 0 /\ data[1] = "gobBlock"
    THEN [ok |-> TRUE, block |-> data[2]]
    ELSE [ok |-> FALSE, block |-> NoBlock]

(***************************************************************************)
(* The chain store: block records by hash (blocks), the persisted tip      *)
(* pointer "lh" (lh) and the BlockChain value's LastHash.  An operation    *)
(* that panics inside a store transaction commits nothing.                 *)
(***************************************************************************)
MapGet(m, k, default) == IF k \in DOMAIN m THEN m[k] ELSE default

MapPut(m, k, v) == [x \in DOMAIN m \cup {k} |-> IF x = k THEN v ELSE m[x]]

MapDelete(m, k) == [x \in DOMAIN m \ {k} |-> m[x]]

\* AddBlock's first test: txn.Get(block.Hash) finds a record
AlreadyStoredNever(block, store) == FALSE

AlreadyStored(block, store) == block.Hash \in DOMAIN store

\* AddBlock's fork choice
AdvancesTipAlways(block, lastBlock) == TRUE

AdvancesTipOnEqual(block, lastBlock) == block.Height >= lastBlock.Height

AdvancesTip(block, lastBlock) == block.Height > lastBlock.Height

\* an AddBlock that writes the tip to the store only
AddBlockStoreOnly(block, store, tip, mem) ==
    IF AlreadyStored(block, store)
    THEN [res |-> "exists", blocks |-> store, lh |-> tip, LastHash |-> mem]
    ELSE LET stored == MapPut(store, block.Hash, Serialize(block))
             lastBlock == Deserialize(MapGet(stored, tip, Nil))
         IN  IF tip \notin DOMAIN stored \/ ~lastBlock.ok
             THEN [res |-> "panic", blocks |-> store, lh |-> tip,
                   LastHash |-> mem]
             ELSE IF AdvancesTip(block, lastBlock.block)
             THEN [res |-> "tip", blocks |-> stored, lh |-> block.Hash,
                   LastHash |-> mem]
             ELSE [res |-> "stored", blocks |-> stored, lh |-> tip,
                   LastHash |-> mem]

\* BlockChain.AddBlock on the store (store, tip) and the in-memory LastHash
AddBlock(block, store, tip, mem) ==
    IF AlreadyStored(block, store)
    THEN [res |-> "exists", blocks |-> store, lh |-> tip, LastHash |-> mem]
    ELSE LET stored == MapPut(store, block.Hash, Serialize(block))
             lastBlock == Deserialize(MapGet(stored, tip, Nil))
         IN  IF tip \notin DOMAIN stored \/ ~lastBlock.ok
             THEN [res |-> "panic", blocks |-> store, lh |-> tip,
                   LastHash |-> mem]
             ELSE IF AdvancesTip(block, lastBlock.block)
             THEN [res |-> "tip", blocks |-> stored, lh |-> block.Hash,
                   LastHash |-> block.Hash]
             ELSE [res |-> "stored", blocks |-> stored, lh |-> tip,
                   LastHash |-> mem]

\* BlockChain.GetBlock
GetBlock(blockHash, store) ==
    IF blockHash \in DOMAIN store
    THEN Deserialize(store[blockHash])
    ELSE [ok |-> FALSE, block |-> NoBlock]

\* BlockChain.GetBestHeight; ok = FALSE when Handle panics
GetBestHeight(store, tip) ==
    LET b == GetBlock(tip, store)
    IN  [ok |-> b.ok, height |-> b.block.Height]

\* BlockChain.MineBlock.  The first transaction reads the value of "lh" twice:
\* lastBlockData is the tip's hash, not the tip's record, and Deserialize is
\* applied to it.
MineBlock(txs, store, tip, mem) ==
    LET lastHash == tip
        lastBlockData == tip
        lastBlock == Deserialize(lastBlockData)
        lastHeight == lastBlock.block.Height
        created == CreateBlock(txs, lastHash, lastHeight + 1)
        newBlock == created.block
    IN  IF ~lastBlock.ok \/ ~created.ok
        THEN [res |-> "panic", blocks |-> store, lh |-> tip, LastHash |-> mem,
              block |-> NoBlock]
        ELSE [res |-> "tip",
              blocks |-> MapPut(store, newBlock.Hash, Serialize(newBlock)),
              lh |-> newBlock.Hash, LastHash |-> newBlock.Hash,
              block |-> newBlock]

RECURSIVE IterFrom(_, _)
\* the blocks an iterator started at hash h returns, Next after Next, down
\* to a block with an empty PrevHash; ok = FALSE when Next looks up a hash
\* that is not stored
IterFrom(h, store) ==
    LET b == GetBlock(h, store)
    IN  IF ~b.ok
        THEN [ok |-> FALSE, blocks |-> <<>>]
        ELSE IF Len(b.block.PrevHash) = 0
        THEN [ok |-> TRUE, blocks |-> <<b.block>>]
        ELSE LET rest == IterFrom(b.block.PrevHash, store)
             IN  [ok |-> rest.ok, blocks |-> <<b.block>> \o rest.blocks]

(***************************************************************************)
(* The UTXO index: utxo maps a transaction id to the encoded output list   *)
(* stored under utxo-<id>.                                                 *)
(***************************************************************************)
SerializeOutputs(outs) == <<"gobOuts", outs>>

DeserializeOutputs(data) == data[2]

RECURSIVE AddOutputs(_, _, _, _, _)
\* FindUTXO's Outputs loop for one transaction, from output outIdx on
AddOutputs(UTXO, spentTXOs, txID, outputs, outIdx) ==
    IF outIdx >= Len(outputs)
    THEN UTXO
    ELSE IF outIdx \in MapGet(spentTXOs, txID, {})
    THEN AddOutputs(UTXO, spentTXOs, txID, outputs, outIdx + 1)
    ELSE AddOutputs(
             MapPut(UTXO, txID,
                    Append(MapGet(UTXO, txID, <<>>), outputs[outIdx + 1])),
             spentTXOs, txID, outputs, outIdx + 1)

RECURSIVE MarkSpent(_, _, _)
\* FindUTXO's loop over the inputs of a transaction, from input k on
MarkSpent(spentTXOs, inputs, k) ==
    IF k > Len(inputs)
    THEN spentTXOs
    ELSE MarkSpent(
             MapPut(spentTXOs, inputs[k].ID,
                    MapGet(spentTXOs, inputs[k].ID, {}) \cup {inputs[k].Out}),
             inputs, k + 1)

RECURSIVE ScanTxs(_, _, _)
\* FindUTXO's loop over the transactions of a block, from transaction k on
ScanTxs(acc, txs, k) ==
    IF k > Len(txs)
    THEN acc
    ELSE LET tx == txs[k]
             UTXO == AddOutputs(acc.UTXO, acc.spentTXOs, tx.ID, tx.Outputs, 0)
             spent == IF IsCoinbase(tx)
                      THEN acc.spentTXOs
                      ELSE MarkSpent(acc.spentTXOs, tx.Inputs, 1)
         IN  ScanTxs([UTXO |-> UTXO, spentTXOs |-> spent], txs, k + 1)

RECURSIVE ScanBlocks(_, _, _)
ScanBlocks(acc, chain, k) ==
    IF k > Len(chain)
    THEN acc
    ELSE ScanBlocks(ScanTxs(acc, chain[k].Transactions, 1), chain, k + 1)

\* BlockChain.FindUTXO, iterating from LastHash
FindUTXO(mem, store) ==
    LET iter == IterFrom(mem, store)
    IN  [ok |-> iter.ok,
         UTXO |-> ScanBlocks([UTXO |-> <<>>, spentTXOs |-> <<>>],
                             iter.blocks, 1).UTXO]

\* a DeleteByPrefix that deletes nothing
DeleteByPrefixNothing(index) == index

\* UTXOSet.DeleteByPrefix for the utxo prefix: the keys the iterator yields
\* are collected and deleted, here in one batch (fewer than collectSize)
DeleteByPrefix(index) ==
    LET keysForDelete == DOMAIN index
    IN  [id \in DOMAIN index \ keysForDelete |-> index[id]]

\* UTXOSet.Reindex on the stored index: the entries are deleted, then
\* FindUTXO runs, then its result is written over what is left; a panic in
\* FindUTXO leaves the index deleted
Reindex(index, mem, store) ==
    LET cleared == DeleteByPrefix(index)
        found == FindUTXO(mem, store)
    IN  IF found.ok
        THEN [res |-> "ok",
              utxo |-> [id \in DOMAIN cleared \cup DOMAIN found.UTXO |->
                           IF id \in DOMAIN found.UTXO
                           THEN SerializeOutputs(found.UTXO[id])
                           ELSE cleared[id]]]
        ELSE [res |-> "panic", utxo |-> cleared]

\* Update keeps, of the stored list outs, the entries whose position in
\* that list differs from in.Out
KeepOthers(outs, out) ==
    SelectSeq([k \in 1..Len(outs) |-> [pos |-> k - 1, out |-> outs[k]]],
              LAMBDA e : e.pos # out)

RECURSIVE UpdateInputs(_, _, _)
\* Update's loop over the inputs of a transaction, from input k on
UpdateInputs(index, inputs, k) ==
    IF k > Len(inputs) \/ ~index.ok
    THEN index
    ELSE LET in == inputs[k]
         IN  IF in.ID \notin DOMAIN index.utxo
             THEN [ok |-> FALSE, utxo |-> index.utxo]
             ELSE LET outs == DeserializeOutputs(index.utxo[in.ID])
                      kept == KeepOthers(outs, in.Out)
                      updatedOuts == [j \in 1..Len(kept) |-> kept[j].out]
                      next == IF Len(updatedOuts) = 0
                              THEN MapDelete(index.utxo, in.ID)
                              ELSE MapPut(index.utxo, in.ID,
                                          SerializeOutputs(updatedOuts))
                  IN  UpdateInputs([ok |-> TRUE, utxo |-> next], inputs, k + 1)

RECURSIVE UpdateTxs(_, _, _)
\* Update's loop over the transactions of the block, from transaction k on
UpdateTxs(index, txs, k) ==
    IF k > Len(txs) \/ ~index.ok
    THEN index
    ELSE LET tx == txs[k]
             spent == IF IsCoinbase(tx)
                      THEN index
                      ELSE UpdateInputs(index, tx.Inputs, 1)
             next == [ok |-> spent.ok,
                      utxo |-> MapPut(spent.utxo, tx.ID,
                                      SerializeOutputs(tx.Outputs))]
         IN  UpdateTxs(next, txs, k + 1)

\* UTXOSet.Update, one store transaction: a panic commits nothing
Update(block, index) ==
    LET done == UpdateTxs([ok |-> TRUE, utxo |-> index], block.Transactions, 1)
    IN  IF done.ok
        THEN [res |-> "ok", utxo |-> done.utxo]
        ELSE [res |-> "panic", utxo |-> index]

RECURSIVE SpendableFrom(_, _, _, _, _, _)
\* FindSpendableOutputs' loops: entry k of the iteration order, output
\* outIdx of that entry
SpendableFrom(acc, index, order, k, pubKeyHash, amount) ==
    IF k > Len(order)
    THEN acc
    ELSE LET txID == order[k]
             outs == DeserializeOutputs(index[txID])
             OneEntry[outIdx \in 0..Len(outs)] ==
                 IF outIdx = 0
                 THEN acc
                 ELSE LET before == OneEntry[outIdx - 1]
                          out == outs[outIdx]
                      IN  IF IsLockedWithKey(out, pubKeyHash)
                             /\ before.accumulated < amount
                          THEN [accumulated |-> before.accumulated + out.Value,
                                unspentOuts |->
                                    MapPut(before.unspentOuts, txID,
                                           Append(MapGet(before.unspentOuts,
                                                         txID, <<>>),
                                                  outIdx - 1))]
                          ELSE before
         IN  SpendableFrom(OneEntry[Len(outs)], index, order, k + 1,
                           pubKeyHash, amount)

\* a search that does not stop at the amount
FindSpendableNoStop(index, order, pubKeyHash, amount) ==
    SpendableFrom([accumulated |-> 0, unspentOuts |-> <<>>], index, order, 1,
                  pubKeyHash, amount + SendAmount)

\* UTXOSet.FindSpendableOutputs, the store's iterator returning the
\* entries in the order `order`
FindSpendableOutputs(index, order, pubKeyHash, amount) ==
    SpendableFrom([accumulated |-> 0, unspentOuts |-> <<>>], index, order, 1,
                  pubKeyHash, amount)

(***************************************************************************)
(* Keys and signatures.  A big integer is its big.Int.Bytes(): the minimal *)
(* big-endian byte string, without leading zero bytes.  A P-256 scalar or  *)
(* coordinate has IntLen bytes (32 in the code), or one less when its top  *)
(* byte is zero.  A key is named by the wallet and the lengths of its      *)
(* coordinates; a signature by the key, the digest and the lengths of r    *)
(* and s that the signing randomness gave.                                 *)
(***************************************************************************)
\* byte lengths of a scalar or coordinate
IntLens == {IntLen - 1, IntLen}

Keys == [name : Wallets, xlen : IntLens, ylen : IntLens]

ZeroByte == <<"00", 0, 0>>

\* big.Int.Bytes() of the integer called `what`, len bytes long
IntBytes(kind, what, len) == [i \in 1..len |-> <<kind, what, i>>]

RECURSIVE SetBytes(_)
\* big.Int.SetBytes: the integer a byte string stands for, leading zero
\* bytes dropped
SetBytes(bytes) ==
    IF Len(bytes) > 0 /\ bytes[1] = ZeroByte
    THEN SetBytes(Tail(bytes))
    ELSE bytes

\* NewKeyPair's public key: X.Bytes() followed by Y.Bytes()
PublicKey(key) ==
    IntBytes("X", key, key.xlen) \o IntBytes("Y", key, key.ylen)

\* the bytes of r or s: the leading byte stands for what was signed and by
\* whom, the others only for their place
ScalarBytes(kind, inst, len) ==
    [i \in 1..len |->
        <<kind, IF i = 1 THEN inst ELSE [inst EXCEPT !.digest = Nil], i>>]

\* ecdsa.Sign: r and s for digest under the key, rlen and slen bytes long
EcdsaSign(key, digest, rlen, slen) ==
    LET inst == [key |-> key, digest |-> digest, rlen |-> rlen, slen |-> slen]
    IN  [r |-> ScalarBytes("r", inst, rlen), s |-> ScalarBytes("s", inst, slen)]

\* ecdsa.Verify: (r, s) is a signature of digest by the key whose public
\* point is (x, y)
EcdsaVerify(x, y, digest, r, s) ==
    \E key \in Keys, rlen \in IntLens, slen \in IntLens :
        /\ x = IntBytes("X", key, key.xlen)
        /\ y = IntBytes("Y", key, key.ylen)
        /\ r = EcdsaSign(key, digest, rlen, slen).r
        /\ s = EcdsaSign(key, digest, rlen, slen).s

\* the two halves Verify cuts a byte string into
FirstHalf(bytes) == SubSeq(bytes, 1, Len(bytes) \div 2)

SecondHalf(bytes) == SubSeq(bytes, Len(bytes) \div 2 + 1, Len(bytes))

\* TxInput.UsesKey
UsesKey(in, pubKeyHash) == PublicKeyHash(in.PubKey) = pubKeyHash

\* Transaction.TrimmedCopy
TrimmedCopy(tx) ==
    [ID |-> tx.ID,
     Inputs |-> [k \in 1..Len(tx.Inputs) |->
                    [ID |-> tx.Inputs[k].ID, Out |-> tx.Inputs[k].Out,
                     Signature |-> Nil, PubKey |-> Nil]],
     Outputs |-> [k \in 1..Len(tx.Outputs) |->
                     [Value |-> tx.Outputs[k].Value,
                      PubKeyHash |-> tx.Outputs[k].PubKeyHash]]]

\* the check both Sign and Verify start with: every input's transaction is
\* in prevTXs
PrevKnown(tx, prevTXs) ==
    \A k \in 1..Len(tx.Inputs) : tx.Inputs[k].ID \in DOMAIN prevTXs

\* prevTX.Outputs[in.Out] exists
RefInRange(in, prevTXs) ==
    /\ in.Out >= 0
    /\ in.Out < Len(prevTXs[in.ID].Outputs)

\* the digest input inId is signed against: the ID of the trimmed copy whose
\* input inId carries the referenced output's locking hash as PubKey
SigningDigest(tx, prevTXs, inId) ==
    LET txCopy == TrimmedCopy(tx)
        in == txCopy.Inputs[inId]
        prevTX == prevTXs[in.ID]
    IN  Hash([txCopy EXCEPT
                 !.Inputs[inId].PubKey = prevTX.Outputs[in.Out + 1].PubKeyHash])

RECURSIVE SignInputs(_, _, _, _, _)
\* Sign's loop, from input inId on; lens[inId] are the lengths of r and s
SignInputs(tx, key, prevTXs, lens, inId) ==
    IF inId > Len(tx.Inputs)
    THEN [ok |-> TRUE, tx |-> tx]
    ELSE IF ~RefInRange(tx.Inputs[inId], prevTXs)
    THEN [ok |-> FALSE, tx |-> tx]
    ELSE LET rs == EcdsaSign(key, SigningDigest(tx, prevTXs, inId),
                             lens[inId][1], lens[inId][2])
             signature == rs.r \o rs.s
         IN  SignInputs([tx EXCEPT !.Inputs[inId].Signature = signature],
                        key, prevTXs, lens, inId + 1)

\* Transaction.Sign; ok = FALSE when it panics
Sign(tx, key, prevTXs, lens) ==
    IF IsCoinbase(tx)
    THEN [ok |-> TRUE, tx |-> tx]
    ELSE IF ~PrevKnown(tx, prevTXs)
    THEN [ok |-> FALSE, tx |-> tx]
    ELSE SignInputs(tx, key, prevTXs, lens, 1)

\* one pass of Verify's loop: the signature of input inId verifies
InputVerifies(tx, prevTXs, inId) ==
    LET in == tx.Inputs[inId]
        r == SetBytes(FirstHalf(in.Signature))
        s == SetBytes(SecondHalf(in.Signature))
        x == SetBytes(FirstHalf(in.PubKey))
        y == SetBytes(SecondHalf(in.PubKey))
    IN  EcdsaVerify(x, y, SigningDigest(tx, prevTXs, inId), r, s)

RECURSIVE VerifyInputs(_, _, _)
VerifyInputs(tx, prevTXs, inId) ==
    IF inId > Len(tx.Inputs)
    THEN [ok |-> TRUE, valid |-> TRUE]
    ELSE IF ~RefInRange(tx.Inputs[inId], prevTXs)
    THEN [ok |-> FALSE, valid |-> FALSE]
    ELSE IF ~InputVerifies(tx, prevTXs, inId)
    THEN [ok |-> TRUE, valid |-> FALSE]
    ELSE VerifyInputs(tx, prevTXs, inId + 1)

\* a Verify that treats a coinbase as any other transaction
VerifyNoCoinbase(tx, prevTXs) ==
    IF ~PrevKnown(tx, prevTXs)
    THEN [ok |-> FALSE, valid |-> FALSE]
    ELSE VerifyInputs(tx, prevTXs, 1)

\* Transaction.Verify; ok = FALSE when it panics, valid is what it returns
Verify(tx, prevTXs) ==
    IF IsCoinbase(tx)
    THEN [ok |-> TRUE, valid |-> TRUE]
    ELSE IF ~PrevKnown(tx, prevTXs)
    THEN [ok |-> FALSE, valid |-> FALSE]
    ELSE VerifyInputs(tx, prevTXs, 1)

(***************************************************************************)
(* Wallets and the building of a transaction.                              *)
(***************************************************************************)
\* the key of wallet w in the ledger: both coordinates of full length
WalletKey(w) == [name |-> w, xlen |-> IntLen, ylen |-> IntLen]

WalletAddress(w) == Address(PublicKey(WalletKey(w)))

WalletHash(w) == PublicKeyHash(PublicKey(WalletKey(w)))

\* NewTransaction once the outputs to spend are chosen: refs lists the
\* (txid, output index) pairs of validOutputs in the order the map yields
\* them, acc is their accumulated value; ok = FALSE when signing panics
BuildTransaction(key, to, amount, acc, refs, prevTXs, lens) ==
    LET inputs == [k \in 1..Len(refs) |->
                      [ID |-> refs[k][1], Out |-> refs[k][2],
                       Signature |-> Nil, PubKey |-> PublicKey(key)]]
        from == Address(PublicKey(key))
        outputs == IF acc > amount
                   THEN <<NewTXOutput(amount, to),
                          NewTXOutput(acc - amount, from)>>
                   ELSE <<NewTXOutput(amount, to)>>
        tx == [ID |-> Nil, Inputs |-> inputs, Outputs |-> outputs]
    IN  Sign([tx EXCEPT !.ID = Hash(tx)], key, prevTXs, lens)

(***************************************************************************)
(* What the chain says is unspent.  An output is named by its position:    *)
(* <<i, j, k>> is output k - 1 of transaction j of block i of the chain,   *)
(* the tip being block 1.                                                  *)
(***************************************************************************)
ChainOutputs(chain) ==
    UNION {UNION {{<<i, j, k>> :
                   k \in 1..Len(chain[i].Transactions[j].Outputs)} :
                  j \in 1..Len(chain[i].Transactions)} :
           i \in 1..Len(chain)}

TxAt(chain, p) == chain[p[1]].Transactions[p[2]]

OutputAt(chain, p) == TxAt(chain, p).Outputs[p[3]]

\* some input of a transaction on the chain references output out of
\* transaction id
Referenced(chain, id, out) ==
    \E i \in 1..Len(chain) :
        \E j \in 1..Len(chain[i].Transactions) :
            LET tx == chain[i].Transactions[j]
            IN  /\ ~IsCoinbase(tx)
                /\ \E n \in 1..Len(tx.Inputs) :
                      tx.Inputs[n].Out = out /\ tx.Inputs[n].ID = id

\* the outputs on the chain that no input on the chain references
UnspentOnChain(chain) ==
    {p \in ChainOutputs(chain) :
        ~Referenced(chain, TxAt(chain, p).ID, p[3] - 1)}

\* the ids of the transactions on the chain
ChainIds(chain) == {TxAt(chain, p).ID : p \in ChainOutputs(chain)}

\* the transaction on the chain with the given id
TxOnChain(chain, id) ==
    TxAt(chain, CHOOSE p \in ChainOutputs(chain) : TxAt(chain, p).ID = id)

\* the unreferenced outputs of transaction id, in the order of their indices
UnspentOutputsOf(chain, id) ==
    LET tx == TxOnChain(chain, id)
        keep == SelectSeq([k \in 1..Len(tx.Outputs) |-> k],
                          LAMBDA k : ~Referenced(chain, id, k - 1))
    IN  [n \in 1..Len(keep) |-> tx.Outputs[keep[n]]]

\* the index the chain determines: an entry for every transaction with an
\* unreferenced output, holding exactly those outputs
ExpectedIndex(chain) ==
    [id \in {t \in ChainIds(chain) : Len(UnspentOutputsOf(chain, t)) > 0} |->
        UnspentOutputsOf(chain, id)]

\* the stored index, decoded
DecodedIndex(index) == [id \in DOMAIN index |-> DeserializeOutputs(index[id])]

(***************************************************************************)
(* The blocks peers deliver.                                               *)
(***************************************************************************)
\* A block sealed by a peer over a stored block or as a genesis, carrying
\* any height: HandleBlock hands AddBlock whatever it decodes
NetBlocks(store) ==
    LET sealed == {CreateBlock(<<CoinbaseTx(WalletAddress(w), Nil)>>, p, 0).block :
                   w \in Wallets, p \in DOMAIN store \cup {Nil}}
    IN  {[b EXCEPT !.Height = h] : b \in sealed, h \in 0..MaxHeight}

\* the wallet an output is locked to
Owner(out) == CHOOSE w \in Wallets : WalletHash(w) = out.PubKeyHash

\* the transaction by which the owner of the unspent output at p pays the
\* wallet to: SendAmount of it, or all of it when it holds less
PeerSpend(chain, p, to) ==
    LET tx == TxAt(chain, p)
        acc == OutputAt(chain, p).Value
        amount == IF acc > SendAmount THEN SendAmount ELSE acc
    IN  BuildTransaction(WalletKey(Owner(OutputAt(chain, p))),
                         WalletAddress(to), amount, acc,
                         << <<tx.ID, p[3] - 1>> >>,
                         [id \in {tx.ID} |-> tx],
                         << <<IntLen, IntLen>> >>).tx

\* the unspent outputs of the chain, each with a payee other than its owner
Payments(chain) ==
    {c \in UnspentOnChain(chain) \X Wallets : c[2] # Owner(OutputAt(chain, c[1]))}

\* two payments spend different outputs
Apart(chain, c, d) ==
    \/ c[1][3] # d[1][3]
    \/ TxAt(chain, c[1]).ID # TxAt(chain, d[1]).ID

\* the payments of a block: none, one, or two that spend different outputs
SpendLists(chain) ==
    LET pays == Payments(chain)
    IN  {<<>>} \cup {<<c>> : c \in pays}
        \cup {d \in pays \X pays : Apart(chain, d[1], d[2])}

\* the block a peer mines on top of the tip: a coinbase for the miner m,
\* followed by the transactions of the payments
PeerBlock(chain, m, pays) ==
    CreateBlock(<<CoinbaseTx(WalletAddress(m), Nil)>>
                \o [n \in 1..Len(pays) |->
                       PeerSpend(chain, pays[n][1], pays[n][2])],
                chain[1].Hash, chain[1].Height + 1).block

(***************************************************************************)
(* The state machine.  blocks, lh and utxo are the contents of the store,  *)
(* LastHash the field of the BlockChain value; last records the operation  *)
(* that ran last, its outcome and the block it was given; ret is what the  *)
(* last read-only call returned, with the arguments it was given; net is   *)
(* what a node keeps in memory between messages, fs the database           *)
(* directory as openDB finds it.                                           *)
(***************************************************************************)
NoTx == [ID |-> Nil, Inputs |-> <<>>, Outputs |-> <<>>]

PowIdle == [phase |-> "idle", block |-> NoBlock, valid |-> FALSE]

NoKey == [name |-> "none", xlen |-> 0, ylen |-> 0]

SigIdle == [phase |-> "idle", tx |-> NoTx, key |-> NoKey, mut |-> "none",
            res |-> "none"]

NoRet == [op |-> "none"]

\* a node that has received nothing: blocksInTransit and memoryPool are
\* empty; mining is the list a miner is about to hand to MineBlock
NetIdle == [blocksInTransit |-> <<>>, memoryPool |-> <<>>, mining |-> <<>>]

\* no database directory has been opened
FsIdle == [phase |-> "idle"]

\* no database exists yet
Init ==
    /\ blocks = <<>>
    /\ lh = Nil
    /\ LastHash = Nil
    /\ utxo = <<>>
    /\ last = [op |-> "none", res |-> "none", arg |-> NoBlock, sync |-> FALSE]
    /\ pow = PowIdle
    /\ sig = SigIdle
    /\ ret = NoRet
    /\ net = NetIdle
    /\ fs = FsIdle

\* InitBlockChain once DBexist has answered no: the genesis block is stored
\* and becomes the tip
InitBlockChain(address) ==
    LET genesis == Genesis(CoinbaseTx(address, genesisData))
    IN  IF ~genesis.ok
        THEN [res |-> "panic", blocks |-> <<>>, lh |-> Nil, LastHash |-> Nil]
        ELSE [res |-> "tip",
              blocks |-> MapPut(<<>>, genesis.block.Hash,
                                Serialize(genesis.block)),
              lh |-> genesis.block.Hash, LastHash |-> genesis.block.Hash]

\* the index is what Reindex would write; that is never an empty index, the
\* outputs of the tip's first transaction being unspent
InSync(index, mem, store) ==
    /\ DOMAIN index # {}
    /\ Reindex(index, mem, store) = [res |-> "ok", utxo |-> index]

\* InitBlockChain for the address of the first wallet; with a database
\* present it exits
InitBlockChainStep ==
    /\ lh = Nil
    /\ \E w \in {GenesisOwner} :
          LET done == InitBlockChain(WalletAddress(w))
          IN  /\ blocks' = done.blocks
              /\ lh' = done.lh
              /\ LastHash' = done.LastHash
              /\ last' = [op |-> "InitBlockChain", res |-> done.res,
                          arg |-> NoBlock, sync |-> FALSE]
    /\ UNCHANGED <<utxo, pow, sig, ret, net, fs>>

\* AddBlock of block; sync tells whether the index was in sync before
AddBlockOf(block, sync) ==
    LET done == AddBlock(block, blocks, lh, LastHash)
    IN  /\ blocks' = done.blocks
        /\ lh' = done.lh
        /\ LastHash' = done.LastHash
        /\ last' = [op |-> "AddBlock", res |-> done.res, arg |-> block,
                    sync |-> sync]
        /\ UNCHANGED <<utxo, pow, sig, ret, net, fs>>

\* AddBlock of a block delivered by the network
AddBlockStep ==
    /\ lh # Nil
    /\ LET sync == InSync(utxo, LastHash, blocks)
       IN  \E block \in NetBlocks(blocks) :
              /\ \/ block.Hash \in DOMAIN blocks
                 \/ Cardinality(DOMAIN blocks) < MaxBlocks
              /\ AddBlockOf(block, sync)

\* MineBlock of a coinbase for a wallet
MineBlockStep ==
    /\ lh # Nil
    /\ Cardinality(DOMAIN blocks) < MaxBlocks
    /\ \E w \in Wallets :
          LET done == MineBlock(<<CoinbaseTx(WalletAddress(w), Nil)>>,
                                blocks, lh, LastHash)
          IN  /\ blocks' = done.blocks
              /\ lh' = done.lh
              /\ LastHash' = done.LastHash
              /\ last' = [op |-> "MineBlock", res |-> done.res,
                          arg |-> done.block, sync |-> FALSE]
    /\ UNCHANGED <<utxo, pow, sig, ret, net, fs>>

Next == InitBlockChainStep \/ AddBlockStep \/ MineBlockStep

\* the chain store under InitBlockChain, AddBlock and MineBlock
Spec == Init /\ [][Next]_vars

(***************************************************************************)
(* Properties of the chain store.                                          *)
(***************************************************************************)
\* the block stored under hash h
StoredBlock(h) == Deserialize(blocks[h]).block

\* C3: after any sequence of InitBlockChain, MineBlock and AddBlock calls the
\* persisted tip pointer references a stored block, and no stored block is
\* higher than that block.
C3_TipIsHighest ==
    lh # Nil =>
        /\ lh \in DOMAIN blocks
        /\ \A h \in DOMAIN blocks : StoredBlock(h).Height <= StoredBlock(lh).Height

\* a block lower than the tip was delivered after the tip had risen, and the
\* store is full
C3_Witness ==
    /\ last.op = "AddBlock"
    /\ last.res = "stored"
    /\ last.arg.Height < StoredBlock(lh).Height
    /\ Cardinality(DOMAIN blocks) = MaxBlocks

\* C4: AddBlock of a block whose hash is not stored persists the block; it
\* sets the tip pointer to the block's hash when the block is strictly
\* higher than the block the tip pointer references, and leaves the tip
\* pointer alone when the block is as high or lower.
C4_AddBlockForkChoice ==
    [][(last'.op = "AddBlock" /\ last'.arg.Hash \notin DOMAIN blocks) =>
          /\ blocks' = MapPut(blocks, last'.arg.Hash, Serialize(last'.arg))
          /\ IF last'.arg.Height > StoredBlock(lh).Height
             THEN lh' = last'.arg.Hash
             ELSE lh' = lh]_vars

\* a competing block as high as the tip was stored and the tip stayed
C4_Witness ==
    /\ last.op = "AddBlock"
    /\ last.res = "stored"
    /\ last.arg.Hash # lh
    /\ last.arg.Height = StoredBlock(lh).Height
    /\ StoredBlock(last.arg.Hash) = last.arg

\* C5: AddBlock of a block whose hash is already stored changes nothing: the
\* block records, the persisted tip pointer and LastHash are as before.
C5_AddBlockIdempotent ==
    [][(last'.op = "AddBlock" /\ last'.arg.Hash \in DOMAIN blocks) =>
          /\ blocks' = blocks
          /\ lh' = lh
          /\ LastHash' = LastHash]_vars

\* a block was delivered whose hash is stored, claiming another height than
\* the stored record, higher than the tip's
C5_Witness ==
    /\ last.op = "AddBlock"
    /\ last.res = "exists"
    /\ StoredBlock(last.arg.Hash) # last.arg
    /\ last.arg.Height > StoredBlock(lh).Height

(***************************************************************************)
(* The UTXO index maintained over a chain that honest peers extend.        *)
(***************************************************************************)
\* the chain from the tip down to the genesis
Chain == IterFrom(LastHash, blocks).blocks

\* the CLI's createblockchain: InitBlockChain, then Reindex
createBlockChainStep ==
    /\ lh = Nil
    /\ LET done == InitBlockChain(WalletAddress(GenesisOwner))
           index == Reindex(utxo, done.LastHash, done.blocks)
       IN  /\ blocks' = done.blocks
           /\ lh' = done.lh
           /\ LastHash' = done.LastHash
           /\ utxo' = index.utxo
           /\ last' = [op |-> "createBlockChain", res |-> index.res,
                       arg |-> NoBlock, sync |-> FALSE]
    /\ UNCHANGED <<pow, sig, ret, net, fs>>

\* AddBlock of a block a peer mined on top of the tip
PeerBlockStep ==
    /\ lh # Nil
    /\ Len(Chain) < MaxChain
    /\ LET sync == InSync(utxo, LastHash, blocks)
       IN  \E m \in Wallets, pays \in SpendLists(Chain) :
              AddBlockOf(PeerBlock(Chain, m, pays), sync)

\* Update called with the block just added.  sync records that the block
\* became the tip of a chain whose index was in sync before it was added
UpdateStep ==
    /\ last.op = "AddBlock"
    /\ LET block == last.arg
           done == Update(block, utxo)
       IN  /\ utxo' = done.utxo
           /\ last' = [op |-> "Update", res |-> done.res, arg |-> block,
                       sync |-> last.res = "tip" /\ last.sync]
    /\ UNCHANGED <<blocks, lh, LastHash, pow, sig, ret, net, fs>>

\* Reindex
ReindexStep ==
    /\ lh # Nil
    /\ LET done == Reindex(utxo, LastHash, blocks)
       IN  /\ utxo' = done.utxo
           /\ last' = [op |-> "Reindex", res |-> done.res, arg |-> NoBlock,
                       sync |-> FALSE]
    /\ UNCHANGED <<blocks, lh, LastHash, pow, sig, ret, net, fs>>

NextIndex ==
    createBlockChainStep \/ PeerBlockStep \/ UpdateStep \/ ReindexStep

\* the UTXO index under block additions, Update and Reindex
SpecIndex == Init /\ [][NextIndex]_vars

(***************************************************************************)
(* Properties of the UTXO index.                                           *)
(***************************************************************************)
\* no two transactions of the chain have the same id
DistinctIds(chain) ==
    \A p \in ChainOutputs(chain), q \in ChainOutputs(chain) :
        TxAt(chain, p).ID = TxAt(chain, q).ID => p[1] = q[1] /\ p[2] = q[2]

\* C1: when a block became the tip of a chain whose index equalled the
\* result of Reindex, Update with that block completes and leaves the index
\* Reindex produces on the new chain.  Stated for chains whose transactions
\* have distinct ids.
C1_UpdateMatchesReindex ==
    (last.op = "Update" /\ last.sync /\ DistinctIds(Chain)) =>
        /\ last.res = "ok"
        /\ Reindex(utxo, LastHash, blocks) = [res |-> "ok", utxo |-> utxo]

\* C2: after Reindex the index has an entry exactly for the transactions of
\* the chain with an output that no input on the chain references, and the
\* entry holds exactly those outputs.
C2_ReindexIsUnspent ==
    last.op \in {"Reindex", "createBlockChain"} =>
        /\ last.res = "ok"
        /\ DecodedIndex(utxo) = ExpectedIndex(Chain)

RECURSIVE Orders(_)
\* the orders in which an iterator may return the keys S
Orders(S) ==
    IF S = {}
    THEN {<<>>}
    ELSE UNION {{<<k>> \o rest : rest \in Orders(S \ {k})} : k \in S}

\* the amounts asked of FindSpendableOutputs
Amounts == {SendAmount, 100}

\* the pair (id, out) designates an output of the chain that is locked to
\* pubKeyHash and that no input references
SpendableOnChain(chain, id, out, pubKeyHash) ==
    /\ id \in ChainIds(chain)
    /\ out >= 0
    /\ out < Len(TxOnChain(chain, id).Outputs)
    /\ TxOnChain(chain, id).Outputs[out + 1].PubKeyHash = pubKeyHash
    /\ ~Referenced(chain, id, out)

\* C10: every (transaction id, output index) pair FindSpendableOutputs
\* returns designates the output at that index of that transaction on the
\* chain, locked to the locking hash asked for and referenced by no input
\* on the chain.  Stated for the index Reindex wrote, on chains whose
\* transactions have distinct ids.
C10_SpendableDesignatesUnspent ==
    (last.op = "Reindex" /\ last.res = "ok" /\ DistinctIds(Chain)) =>
        \A w \in Wallets, amount \in Amounts, order \in Orders(DOMAIN utxo) :
            LET found == FindSpendableOutputs(utxo, order, WalletHash(w), amount)
            IN  \A id \in DOMAIN found.unspentOuts :
                    \A n \in 1..Len(found.unspentOuts[id]) :
                        SpendableOnChain(Chain, id, found.unspentOuts[id][n],
                                         WalletHash(w))

(***************************************************************************)
(* Sealing a block and validating it.                                      *)
(***************************************************************************)
\* the transactions blocks are sealed over
PowTxs ==
    {CoinbaseTx(WalletAddress(GenesisOwner), genesisData)}
    \cup {CoinbaseTx(WalletAddress(w), Nil) : w \in Wallets}

\* the transaction lists handed to CreateBlock, the empty one among them
PowTxLists == UNION {[1..n -> PowTxs] : n \in 0..MaxTxs}

\* the previous hashes handed to CreateBlock: none, and a genesis block's
PowPrevs == {Nil, Genesis(CoinbaseTx(WalletAddress(GenesisOwner), genesisData)).block.Hash}

\* CreateBlock on a transaction list, a previous hash and a height
CreateBlockStep ==
    /\ pow.phase = "idle"
    /\ \E txs \in PowTxLists, prevHash \in PowPrevs, height \in 0..MaxHeight :
          LET created == CreateBlock(txs, prevHash, height)
          IN  /\ pow' = [phase |-> IF created.ok THEN "created" ELSE "panic",
                          block |-> created.block, valid |-> FALSE]
              /\ ret' = [op |-> "CreateBlock", txs |-> txs,
                          res |-> IF created.ok THEN "block" ELSE "panic"]
    /\ UNCHANGED <<blocks, lh, LastHash, utxo, last, sig, net, fs>>

\* Validate on the block CreateBlock returned
ValidateStep ==
    /\ pow.phase = "created"
    /\ pow' = [pow EXCEPT !.phase = "validated", !.valid = Validate(pow.block)]
    /\ UNCHANGED <<blocks, lh, LastHash, utxo, last, sig, ret, net, fs>>

NextPow == CreateBlockStep \/ ValidateStep

\* CreateBlock followed by Validate
SpecPow == Init /\ [][NextPow]_vars

\* C6: for every block CreateBlock returns on a non-empty transaction list,
\* Validate returns true and the block's Hash is the hash of the sealing
\* input made of PrevHash, the Merkle root of the transactions, the
\* block's Nonce and Difficulty.
C6_CreatedBlockValidates ==
    (pow.phase = "validated" /\ Len(pow.block.Transactions) > 0) =>
        /\ pow.valid
        /\ pow.block.Hash =
              Sha256(Join(<<pow.block.PrevHash,
                            HashTransactions(pow.block.Transactions).root,
                            ToHex(pow.block.Nonce), ToHex(Difficulty)>>))

\* a block of several transactions on top of another was sealed after a
\* search that went past the first nonce, and validated
C6_Witness ==
    /\ pow.phase = "validated"
    /\ pow.valid
    /\ Len(pow.block.Transactions) > 1
    /\ Len(pow.block.PrevHash) > 0
    /\ pow.block.Nonce > 0

(***************************************************************************)
(* Signing a transaction, tampering with it, and verifying it.             *)
(***************************************************************************)
\* the referenced transactions: a coinbase of 100 to the first wallet, and
\* the transaction by which that wallet pays SendAmount of it to the other
PrevCoinbase == CoinbaseTx(WalletAddress(GenesisOwner), genesisData)

PrevPayment ==
    BuildTransaction(WalletKey(GenesisOwner),
                     WalletAddress(CHOOSE w \in Wallets : w # GenesisOwner),
                     SendAmount, 100, << <<PrevCoinbase.ID, 0>> >>,
                     [id \in {PrevCoinbase.ID} |-> PrevCoinbase],
                     << <<IntLen, IntLen>> >>).tx

SigPrevTXs ==
    [id \in {PrevCoinbase.ID, PrevPayment.ID} |->
        IF id = PrevCoinbase.ID THEN PrevCoinbase ELSE PrevPayment]

\* the outputs an input may reference
SigRefs ==
    {<<PrevCoinbase.ID, 0>>, <<PrevPayment.ID, 0>>, <<PrevPayment.ID, 1>>}

\* the lists of different outputs a transaction spends
SigRefLists ==
    UNION {{refs \in [1..n -> SigRefs] :
               \A i \in 1..n, j \in 1..n : refs[i] = refs[j] => i = j} :
           n \in 1..MaxInputs}

RECURSIVE SumValues(_, _)
\* the value of the outputs refs[k], refs[k + 1], ... reference
SumValues(refs, k) ==
    IF k > Len(refs)
    THEN 0
    ELSE SigPrevTXs[refs[k][1]].Outputs[refs[k][2] + 1].Value
         + SumValues(refs, k + 1)

\* a transaction is built over some outputs and signed with some key, every
\* input carrying that key's public key; r and s come out rlen and slen long
SignStep ==
    /\ sig.phase = "idle"
    /\ \E refs \in SigRefLists, key \in Keys, to \in Wallets,
          rlen \in IntLens, slen \in IntLens :
          LET acc == SumValues(refs, 1)
              built == BuildTransaction(key, WalletAddress(to),
                                        IF acc > SendAmount THEN SendAmount
                                                            ELSE acc,
                                        acc, refs, SigPrevTXs,
                                        [k \in 1..Len(refs) |-> <<rlen, slen>>])
          IN  /\ to # key.name
              /\ sig' = [phase |-> IF built.ok THEN "signed" ELSE "panic",
                         tx |-> built.tx, key |-> key, mut |-> "none",
                         res |-> "none"]
    /\ UNCHANGED <<blocks, lh, LastHash, utxo, last, pow, ret, net, fs>>

\* a byte that no signature produced by EcdsaSign holds
OtherByte == <<"ff", NoKey, 0>>

\* the id of a transaction that is not among the referenced ones
UnknownId == Sha256(<<"gobTx", Nil, <<>>, <<>>>>)

\* the ways input k of tx is tampered with after signing
TamperedInputs(tx, k) ==
    LET in == tx.Inputs[k]
        sg == in.Signature
        half == Len(sg) \div 2
    IN  {<<"ref-id", [in EXCEPT !.ID = id]>> :
            id \in (DOMAIN SigPrevTXs \cup {UnknownId}) \ {in.ID}}
        \cup {<<"ref-out", [in EXCEPT !.Out = out]>> : out \in {0, 1, 2} \ {in.Out}}
        \cup {<<"sig-byte", [in EXCEPT !.Signature = [sg EXCEPT ![n] = OtherByte]]>> :
                 n \in 1..Len(sg)}
        \cup {<<"sig-cut", [in EXCEPT !.Signature = SubSeq(sg, 1, Len(sg) - 1)]>>,
              <<"sig-none", [in EXCEPT !.Signature = Nil]>>,
              <<"sig-swap", [in EXCEPT !.Signature =
                                SubSeq(sg, half + 1, Len(sg)) \o SubSeq(sg, 1, half)]>>,
              <<"sig-pad", [in EXCEPT !.Signature =
                               <<ZeroByte>> \o SubSeq(sg, 1, half)
                               \o <<ZeroByte>> \o SubSeq(sg, half + 1, Len(sg))]>>}

\* the ways output k of tx is tampered with after signing
TamperedOutputs(tx, k) ==
    LET out == tx.Outputs[k]
    IN  {<<"out-value", [out EXCEPT !.Value = out.Value + 1]>>}
        \cup {<<"out-lock", [out EXCEPT !.PubKeyHash = WalletHash(w)]>> :
                 w \in {v \in Wallets : WalletHash(v) # out.PubKeyHash}}

\* the signed transaction is changed in one place
TamperStep ==
    /\ sig.phase = "signed"
    /\ \/ \E k \in 1..Len(sig.tx.Inputs) :
             \E t \in TamperedInputs(sig.tx, k) :
                sig' = [sig EXCEPT !.phase = "tampered", !.mut = t[1],
                                   !.tx.Inputs[k] = t[2]]
       \/ \E k \in 1..Len(sig.tx.Outputs) :
             \E t \in TamperedOutputs(sig.tx, k) :
                sig' = [sig EXCEPT !.phase = "tampered", !.mut = t[1],
                                   !.tx.Outputs[k] = t[2]]
    /\ UNCHANGED <<blocks, lh, LastHash, utxo, last, pow, ret, net, fs>>

\* Verify on the transaction, as signed or as tampered with
VerifyStep ==
    /\ sig.phase \in {"signed", "tampered"}
    /\ LET done == Verify(sig.tx, SigPrevTXs)
       IN  sig' = [sig EXCEPT !.phase = "verified",
                              !.res = IF ~done.ok THEN "panic"
                                      ELSE IF done.valid THEN "true"
                                      ELSE "false"]
    /\ UNCHANGED <<blocks, lh, LastHash, utxo, last, pow, ret, net, fs>>

NextSig == SignStep \/ TamperStep \/ VerifyStep

\* Sign, then Verify, with or without a change in between
SpecSig == Init /\ [][NextSig]_vars

(***************************************************************************)
(* Properties of Sign and Verify.                                          *)
(***************************************************************************)
\* the output input k of tx references
ReferencedOutput(tx, k) ==
    SigPrevTXs[tx.Inputs[k].ID].Outputs[tx.Inputs[k].Out + 1]

\* C7: Verify returns true for a transaction that is not a coinbase only
\* if the public key of every input hashes to the locking hash of the
\* output the input references.
C7_VerifyChecksOwner ==
    (sig.phase = "verified" /\ sig.res = "true" /\ ~IsCoinbase(sig.tx)) =>
        \A k \in 1..Len(sig.tx.Inputs) :
            UsesKey(sig.tx.Inputs[k], ReferencedOutput(sig.tx, k).PubKeyHash)

\* C8: a transaction that is not a coinbase, whose inputs reference outputs
\* of the referenced transactions and carry the public key of the signing
\* key, verifies against the same referenced transactions once signed.
C8_SignedVerifies ==
    (sig.phase = "verified" /\ sig.mut = "none") => sig.res = "true"

\* C9: once a transaction is signed, Verify does not return true after a
\* change of an input's referenced transaction id or output index, of an
\* input's signature, or of an output's value or locking hash; and Verify
\* returns true only if the signature of every input verifies.
C9_TamperedIsRejected ==
    /\ (sig.phase = "verified" /\ sig.mut # "none") => sig.res # "true"
    /\ (sig.phase = "verified" /\ sig.res = "true") =>
          \A k \in 1..Len(sig.tx.Inputs) :
              InputVerifies(sig.tx, SigPrevTXs, k)

(***************************************************************************)
(* FindSpendableOutputs on its own.  The index is any index over the ids   *)
(* of two transactions whose entries hold one to MaxEntry outputs; the     *)
(* store's iterator may yield the entries in any order.                    *)
(***************************************************************************)
\* the indexes over the transaction ids `ids` whose entries hold one to
\* MaxEntry outputs worth one of `values`
IndexesOver(ids, values) ==
    LET outputs == {NewTXOutput(v, WalletAddress(w)) :
                    v \in values, w \in Wallets}
        entries == UNION {[1..n -> outputs] : n \in 1..MaxEntry}
    IN  UNION {[some -> {SerializeOutputs(e) : e \in entries}] :
               some \in SUBSET ids}

SpendIndexes ==
    IndexesOver({CoinbaseTx(WalletAddress(w), Nil).ID : w \in Wallets},
                {SendAmount, 60})

InitSpend ==
    /\ blocks = <<>>
    /\ lh = Nil
    /\ LastHash = Nil
    /\ utxo \in SpendIndexes
    /\ last = [op |-> "none", res |-> "none", arg |-> NoBlock, sync |-> FALSE]
    /\ pow = PowIdle
    /\ sig = SigIdle
    /\ ret = NoRet
    /\ net = NetIdle
    /\ fs = FsIdle

\* FindSpendableOutputs for a wallet and an amount
FindSpendableOutputsStep ==
    /\ \E w \in Wallets, amount \in Amounts, order \in Orders(DOMAIN utxo) :
          ret' = [op |-> "FindSpendableOutputs", pubKeyHash |-> WalletHash(w),
                  amount |-> amount, order |-> order,
                  res |-> FindSpendableOutputs(utxo, order, WalletHash(w),
                                               amount)]
    /\ UNCHANGED <<blocks, lh, LastHash, utxo, last, pow, sig, net, fs>>

NextSpend == FindSpendableOutputsStep

\* searches of a fixed index
SpecSpend == InitSpend /\ [][NextSpend]_vars

\* the (id, output index) pairs a result designates
Selected(res) ==
    UNION {{<<id, res.unspentOuts[id][n]>> :
            n \in 1..Len(res.unspentOuts[id])} :
           id \in DOMAIN res.unspentOuts}

\* the output of the index a pair designates
EntryOutput(index, p) == DeserializeOutputs(index[p[1]])[p[2] + 1]

\* the pairs of the outputs of the index locked to pubKeyHash
LockedIn(index, pubKeyHash) ==
    UNION {{<<id, k - 1>> :
            k \in {n \in 1..Len(DeserializeOutputs(index[id])) :
                      IsLockedWithKey(DeserializeOutputs(index[id])[n],
                                      pubKeyHash)}} :
           id \in DOMAIN index}

RECURSIVE ValueOf(_, _)
\* the sum of the values of the outputs of the index that S designates
ValueOf(index, S) ==
    IF S = {}
    THEN 0
    ELSE LET p == CHOOSE q \in S : TRUE
         IN  EntryOutput(index, p).Value + ValueOf(index, S \ {p})

\* the pair selected last: the last index listed for the last entry of the
\* iteration order that has one
LastSelected(r) ==
    LET n == CHOOSE k \in 1..Len(r.order) :
                 /\ r.order[k] \in DOMAIN r.res.unspentOuts
                 /\ \A m \in (k + 1)..Len(r.order) :
                        r.order[m] \notin DOMAIN r.res.unspentOuts
        list == r.res.unspentOuts[r.order[n]]
    IN  <<r.order[n], list[Len(list)]>>

\* C11: FindSpendableOutputs designates only outputs of the index locked
\* to the given hash, each once; the accumulated value is the sum of their
\* values; before the last selection it was below the amount; and it
\* reaches the amount whenever the locked outputs of the index are worth
\* that much.
C11_SpendableSelection ==
    ret.op = "FindSpendableOutputs" =>
        LET res == ret.res
            sel == Selected(res)
            locked == LockedIn(utxo, ret.pubKeyHash)
        IN  /\ sel \subseteq locked
            /\ \A id \in DOMAIN res.unspentOuts :
                   LET list == res.unspentOuts[id]
                   IN  \A m, n \in 1..Len(list) : list[m] = list[n] => m = n
            /\ res.accumulated = ValueOf(utxo, sel)
            /\ sel # {} =>
                   res.accumulated - EntryOutput(utxo, LastSelected(ret)).Value
                       < ret.amount
            /\ ValueOf(utxo, locked) >= ret.amount =>
                   res.accumulated >= ret.amount

\* a search that took outputs of two entries, reached the amount and left
\* a locked output of the index alone
C11_Witness ==
    /\ ret.op = "FindSpendableOutputs"
    /\ Cardinality(DOMAIN ret.res.unspentOuts) = 2
    /\ ret.res.accumulated >= ret.amount
    /\ Selected(ret.res) # LockedIn(utxo, ret.pubKeyHash)

(***************************************************************************)
(* NewTransaction over the index and the chain.                            *)
(***************************************************************************)
\* BlockChain.FindTransaction over the blocks the iterator yields, the tip
\* first: the first transaction with the id
FindTransaction(ID, chain) ==
    LET hits == {p \in ChainOutputs(chain) : TxAt(chain, p).ID = ID}
    IN  IF hits = {}
        THEN [ok |-> FALSE, tx |-> NoTx]
        ELSE [ok |-> TRUE,
              tx |-> TxAt(chain,
                          CHOOSE p \in hits :
                              \A q \in hits :
                                  \/ p[1] < q[1]
                                  \/ p[1] = q[1] /\ p[2] <= q[2])]

\* the prevTXs map SignTransaction collects for the inputs refs; ok = FALSE
\* when a lookup fails and Handle panics
PrevTXsOf(refs, chain) ==
    LET ids == {refs[k][1] : k \in 1..Len(refs)}
    IN  [ok |-> \A id \in ids : FindTransaction(id, chain).ok,
         prevTXs |-> [id \in {i \in ids : FindTransaction(i, chain).ok} |->
                         FindTransaction(id, chain).tx]]

RECURSIVE RefsOf(_, _, _)
\* NewTransaction's loops over validOutputs, the map yielding its keys in
\* the order pick, from key k on
RefsOf(validOutputs, pick, k) ==
    IF k > Len(pick)
    THEN <<>>
    ELSE [n \in 1..Len(validOutputs[pick[k]]) |->
             <<pick[k], validOutputs[pick[k]][n]>>]
         \o RefsOf(validOutputs, pick, k + 1)

\* NewTransaction for the wallet with the given key: order is the order of
\* the index iterator, pick the order of the map of the selected outputs
NewTransaction(key, to, amount, index, order, pick, chain) ==
    LET found == FindSpendableOutputs(index, order,
                                      PublicKeyHash(PublicKey(key)), amount)
        refs == RefsOf(found.unspentOuts, pick, 1)
        prev == PrevTXsOf(refs, chain)
        built == BuildTransaction(key, to, amount, found.accumulated, refs,
                                  prev.prevTXs,
                                  [k \in 1..Len(refs) |-> <<IntLen, IntLen>>])
    IN  IF found.accumulated < amount
        THEN [res |-> "panic", err |-> "Error: not enough funds", tx |-> NoTx]
        ELSE IF ~prev.ok
        THEN [res |-> "panic", err |-> "Transaction does not exist",
              tx |-> NoTx]
        ELSE IF ~built.ok
        THEN [res |-> "panic", err |-> "index out of range", tx |-> NoTx]
        ELSE [res |-> "ok", err |-> "none", tx |-> built.tx]

RECURSIVE SumOutputs(_, _)
\* the sum of the values of the outputs outs[k..]
SumOutputs(outs, k) ==
    IF k > Len(outs) THEN 0 ELSE outs[k].Value + SumOutputs(outs, k + 1)

RECURSIVE SumConsumed(_, _, _)
\* the sum of the values of the outputs of the chain that the inputs
\* inputs[k..] reference
SumConsumed(chain, inputs, k) ==
    IF k > Len(inputs)
    THEN 0
    ELSE TxOnChain(chain, inputs[k].ID).Outputs[inputs[k].Out + 1].Value
         + SumConsumed(chain, inputs, k + 1)

\* C12: NewTransaction builds one input per selected output, a first
\* output of the amount locked to the recipient, and a second output of
\* accumulated - amount locked to the sender exactly when accumulated
\* exceeds the amount; the values of its outputs sum to the values of the
\* outputs of the chain its inputs reference.  Stated for the index Reindex
\* wrote, on chains whose transactions have distinct ids.
C12_NewTransactionBalances ==
    (last.op = "Reindex" /\ last.res = "ok" /\ DistinctIds(Chain)) =>
        \A w \in Wallets, amount \in Amounts, order \in Orders(DOMAIN utxo) :
            LET found == FindSpendableOutputs(utxo, order, WalletHash(w),
                                              amount)
                acc == found.accumulated
            IN  \A to \in Wallets \ {w},
                   pick \in Orders(DOMAIN found.unspentOuts) :
                    LET done == NewTransaction(WalletKey(w), WalletAddress(to),
                                               amount, utxo, order, pick, Chain)
                        tx == done.tx
                    IN  done.res = "ok" =>
                            /\ Len(tx.Inputs) = Cardinality(Selected(found))
                            /\ {<<tx.Inputs[k].ID, tx.Inputs[k].Out>> :
                                   k \in 1..Len(tx.Inputs)} = Selected(found)
                            /\ tx.Outputs[1]
                                   = NewTXOutput(amount, WalletAddress(to))
                            /\ Len(tx.Outputs) = IF acc > amount THEN 2 ELSE 1
                            /\ acc > amount =>
                                   tx.Outputs[2]
                                       = NewTXOutput(acc - amount,
                                                     WalletAddress(w))
                            /\ SumOutputs(tx.Outputs, 1)
                                   = SumConsumed(Chain, tx.Inputs, 1)

\* C13: when the outputs FindSpendableOutputs accumulates for the sender
\* are worth less than the amount, NewTransaction does not panic: it hands
\* its caller an error.  (NewTransaction writes nothing, so the store, the
\* tip and the index are as before.)  Stated for the index Reindex wrote.
C13_InsufficientFundsIsError ==
    (last.op \in {"Reindex", "createBlockChain"} /\ last.res = "ok") =>
        \A w \in Wallets, amount \in Amounts, order \in Orders(DOMAIN utxo) :
            LET found == FindSpendableOutputs(utxo, order, WalletHash(w),
                                              amount)
            IN  found.accumulated < amount =>
                    \A to \in Wallets \ {w},
                       pick \in Orders(DOMAIN found.unspentOuts) :
                        NewTransaction(WalletKey(w), WalletAddress(to), amount,
                                       utxo, order, pick, Chain).res # "panic"

(***************************************************************************)
(* Balances.                                                               *)
(***************************************************************************)
RECURSIVE FindUnspentTransactions(_, _, _, _)
\* UTXOSet.FindUnspentTransactions, from entry k of the iteration order on
FindUnspentTransactions(index, order, k, pubKeyHash) ==
    IF k > Len(order)
    THEN <<>>
    ELSE SelectSeq(DeserializeOutputs(index[order[k]]),
                   LAMBDA out : IsLockedWithKey(out, pubKeyHash))
         \o FindUnspentTransactions(index, order, k + 1, pubKeyHash)

\* the balance getBalance prints for a valid address
getBalance(address, index, order) ==
    LET pubKeyHash == Base58Decode(address)[2]
        UTXOs == FindUnspentTransactions(index, order, 1, pubKeyHash)
    IN  SumOutputs(UTXOs, 1)

\* the unreferenced outputs of the chain locked to pubKeyHash
UnspentLockedTo(chain, pubKeyHash) ==
    {p \in UnspentOnChain(chain) :
        OutputAt(chain, p).PubKeyHash = pubKeyHash}

RECURSIVE ChainValue(_, _)
\* the sum of the values of the outputs of the chain at the positions S
ChainValue(chain, S) ==
    IF S = {}
    THEN 0
    ELSE LET p == CHOOSE q \in S : TRUE
         IN  OutputAt(chain, p).Value + ChainValue(chain, S \ {p})

\* C14: once every block addition has been followed by Update, or after a
\* Reindex, FindUnspentTransactions returns for a locking hash exactly the
\* outputs of the chain locked to it that no input references, each once,
\* and the balance is the sum of their values.  Stated for chains whose
\* transactions have distinct ids.
C14_BalanceIsUnspentValue ==
    (/\ \/ last.op \in {"Reindex", "createBlockChain"}
        \/ last.op = "Update" /\ last.sync
     /\ last.res = "ok"
     /\ DistinctIds(Chain)) =>
        \A w \in Wallets, order \in Orders(DOMAIN utxo) :
            LET UTXOs == FindUnspentTransactions(utxo, order, 1, WalletHash(w))
                unspent == UnspentLockedTo(Chain, WalletHash(w))
            IN  /\ \A k \in 1..Len(UTXOs) : UTXOs[k].PubKeyHash = WalletHash(w)
                /\ \A v \in {UTXOs[k].Value : k \in 1..Len(UTXOs)}
                          \cup {OutputAt(Chain, p).Value : p \in unspent} :
                       Cardinality({k \in 1..Len(UTXOs) : UTXOs[k].Value = v})
                           = Cardinality({p \in unspent :
                                             OutputAt(Chain, p).Value = v})
                /\ getBalance(WalletAddress(w), utxo, order)
                       = ChainValue(Chain, unspent)

\* C15: after Update with a block that became the tip of a chain whose
\* index was in sync, no output that an input of the block references is
\* left in the index, also when inputs of the block reference different
\* outputs of one transaction; an entry that is left is not empty; and
\* every transaction of the block has an entry holding all its outputs.
\* Stated for chains whose transactions have distinct ids.
C15_UpdateRemovesConsumed ==
    (last.op = "Update" /\ last.sync /\ DistinctIds(Chain)) =>
        LET txs == last.arg.Transactions
            index == DecodedIndex(utxo)
        IN  /\ last.res = "ok"
            /\ \A j \in 1..Len(txs) :
                   /\ txs[j].ID \in DOMAIN index
                   /\ index[txs[j].ID] = txs[j].Outputs
                   /\ ~IsCoinbase(txs[j]) =>
                          \A n \in 1..Len(txs[j].Inputs) :
                              LET in == txs[j].Inputs[n]
                                  spent == TxOnChain(Chain, in.ID)
                                               .Outputs[in.Out + 1]
                              IN  in.ID \in DOMAIN index =>
                                      /\ Len(index[in.ID]) > 0
                                      /\ \A k \in 1..Len(index[in.ID]) :
                                             index[in.ID][k] # spent

(***************************************************************************)
(* Reindex on its own: the store holds the genesis block, alone or under   *)
(* one block of a peer, and the index is any index over the ids of the     *)
(* genesis coinbase and of a coinbase that may or may not be on the chain. *)
(***************************************************************************)
ReindexStores ==
    LET made == InitBlockChain(WalletAddress(GenesisOwner))
        chain == IterFrom(made.LastHash, made.blocks).blocks
        grown == {AddBlock(PeerBlock(chain, m, pays), made.blocks, made.lh,
                           made.LastHash) :
                  m \in Wallets, pays \in SpendLists(chain)}
    IN  {[blocks |-> d.blocks, lh |-> d.lh, LastHash |-> d.LastHash] :
         d \in {made} \cup grown}

ReindexIndexes ==
    IndexesOver({CoinbaseTx(WalletAddress(GenesisOwner), genesisData).ID,
                 CoinbaseTx(WalletAddress("B"), Nil).ID},
                {SendAmount})

InitReindex ==
    /\ \E d \in ReindexStores :
          /\ blocks = d.blocks
          /\ lh = d.lh
          /\ LastHash = d.LastHash
    /\ utxo \in ReindexIndexes
    /\ last = [op |-> "none", res |-> "none", arg |-> NoBlock, sync |-> FALSE]
    /\ pow = PowIdle
    /\ sig = SigIdle
    /\ ret = NoRet
    /\ net = NetIdle
    /\ fs = FsIdle

\* Reindex of an index with any contents
SpecReindex == InitReindex /\ [][ReindexStep]_vars

\* C16: whatever the index held, Reindex completes and leaves the index it
\* leaves when it starts from an empty index over the same chain, and a
\* Reindex of that index leaves it as it is.
C16_ReindexDependsOnChain ==
    last.op = "Reindex" =>
        /\ last.res = "ok"
        /\ utxo = Reindex(<<>>, LastHash, blocks).utxo
        /\ Reindex(utxo, LastHash, blocks) = [res |-> "ok", utxo |-> utxo]

\* Reindex has run over a chain of two blocks
C16_Witness ==
    /\ last.op = "Reindex"
    /\ Len(Chain) = 2
    /\ Cardinality(DOMAIN utxo) > 1

(***************************************************************************)
(* Properties of the Merkle commitment, on the transaction lists handed to *)
(* CreateBlock.                                                            *)
(***************************************************************************)
RECURSIVE PairwiseRoot(_)
\* the pairwise reduction of a level to one node, the last node of a level
\* with an odd number of nodes being paired with itself
PairwiseRoot(nodes) ==
    LET padded == IF Len(nodes) % 2 # 0
                  THEN Append(nodes, nodes[Len(nodes)])
                  ELSE nodes
        parents == [k \in 1..(Len(padded) \div 2) |->
                       MerkleParent(padded[2 * k - 1], padded[2 * k])]
    IN  IF Len(parents) = 1 THEN parents[1] ELSE PairwiseRoot(parents)

\* C17: for every transaction list of one or more entries the Merkle tree
\* is built without a panic, and its root is the pairwise reduction of the
\* leaves in which the last node of every level with an odd number of
\* nodes is duplicated.
C17_MerkleTreeCompletes ==
    (ret.op = "CreateBlock" /\ Len(ret.txs) >= 1) =>
        /\ ret.res = "block"
        /\ HashTransactions(ret.txs).ok
        /\ HashTransactions(ret.txs).root
               = PairwiseRoot([k \in 1..Len(ret.txs) |->
                                  MerkleLeaf(SerializeTx(ret.txs[k]))])

\* C18: CreateBlock on an empty transaction list fails, here by a panic,
\* and returns no block; nothing is stored and the tip is as before.
C18_EmptyListFails ==
    (ret.op = "CreateBlock" /\ Len(ret.txs) = 0) =>
        /\ ret.res = "panic"
        /\ pow.phase = "panic"
        /\ pow.block = NoBlock
        /\ blocks = <<>>
        /\ lh = Nil
        /\ LastHash = Nil

\* CreateBlock has been called with the empty list
C18_Witness ==
    /\ ret.op = "CreateBlock"
    /\ ret.txs = <<>>
    /\ pow.phase = "panic"

\* the Merkle root sealed in a block hash
SealedRoot(block) == block.Hash[2][2]

\* C19: the root sealed in the block is the root a second computation over
\* the same list gives, and every list of the same length that differs from
\* it, in the content of a leaf or in the order of its leaves, has another
\* root.
C19_MerkleRootSensitive ==
    (ret.op = "CreateBlock" /\ ret.res = "block") =>
        /\ SealedRoot(pow.block) = HashTransactions(ret.txs).root
        /\ \A other \in [1..Len(ret.txs) -> PowTxs] :
               other # ret.txs =>
                   /\ HashTransactions(other).ok
                   /\ HashTransactions(other).root # SealedRoot(pow.block)

\* a block was sealed over three transactions of which two are different,
\* so that lists with one leaf changed and with two leaves swapped exist
C19_Witness ==
    /\ ret.op = "CreateBlock"
    /\ ret.res = "block"
    /\ Len(ret.txs) = 3
    /\ ret.txs[1] # ret.txs[2]

(***************************************************************************)
(* Mining on the tip.                                                      *)
(***************************************************************************)
\* C20: MineBlock with the tip pointer at a stored block T returns a block
\* whose PrevHash is the hash of T and whose Height is the height of T plus
\* one, stores it, and sets the persisted tip pointer and LastHash to its
\* hash.
C20_MineBlockExtendsTip ==
    [][last'.op = "MineBlock" =>
          /\ last'.res = "tip"
          /\ last'.arg.PrevHash = lh
          /\ last'.arg.Height = StoredBlock(lh).Height + 1
          /\ lh' = last'.arg.Hash
          /\ LastHash' = last'.arg.Hash
          /\ lh' \in DOMAIN blocks'
          /\ blocks'[lh'] = Serialize(last'.arg)]_vars

(***************************************************************************)
(* The shape of the stored chain.                                          *)
(***************************************************************************)
\* C21: every stored block with a non-empty PrevHash has its predecessor
\* stored, one lower than itself, and a stored block has height 0 exactly
\* when its PrevHash is empty.
C21_HeightsFollowPrevHash ==
    \A h \in DOMAIN blocks :
        LET b == StoredBlock(h)
        IN  /\ b.PrevHash # Nil =>
                   /\ b.PrevHash \in DOMAIN blocks
                   /\ StoredBlock(b.PrevHash).Height = b.Height - 1
            /\ b.Height = 0 <=> b.PrevHash = Nil

(***************************************************************************)
(* The node.  Every connection is served by a goroutine of its own, so the *)
(* handlers interleave; a handler that panics takes the process down, and  *)
(* the node that is started again has an empty memoryPool, no blocks in    *)
(* transit and the stored tip as its LastHash.  MineTx is two steps, its   *)
(* loop over the memory pool and its call of MineBlock, with the other     *)
(* handlers in between.                                                    *)
(***************************************************************************)
\* the address the node mines for
mineAddress == WalletAddress(CHOOSE w \in Wallets : w # GenesisOwner)

\* the chain of a peer that shares the genesis block, tip first: the block
\* mined on it carries a payment, the next one only its coinbase
PeerChain ==
    LET genesis == Genesis(CoinbaseTx(WalletAddress(GenesisOwner),
                                      genesisData)).block
        first == CreateBlock(<<CoinbaseTx(mineAddress, Nil), PrevPayment>>,
                             genesis.Hash, 1).block
        second == CreateBlock(<<CoinbaseTx(mineAddress, Nil)>>,
                              first.Hash, 2).block
    IN  <<second, first, genesis>>

\* BlockChain.GetBlockHashes; ok = FALSE when the iterator's Next panics
GetBlockHashes(mem, store) ==
    LET it == IterFrom(mem, store)
    IN  [ok |-> it.ok,
         blocks |-> [k \in 1..Len(it.blocks) |-> it.blocks[k].Hash]]

\* a VerifyTransaction that takes a coinbase as valid before any lookup
VerifyTransactionCoinbaseFirst(tx, chain) ==
    IF IsCoinbase(tx)
    THEN [ok |-> TRUE, valid |-> TRUE]
    ELSE LET prev == PrevTXsOf([k \in 1..Len(tx.Inputs) |->
                                   <<tx.Inputs[k].ID, tx.Inputs[k].Out>>],
                               chain)
         IN  IF ~prev.ok
             THEN [ok |-> FALSE, valid |-> FALSE]
             ELSE Verify(tx, prev.prevTXs)

\* BlockChain.VerifyTransaction: FindTransaction for every input, Handle on
\* its error, then Verify; ok = FALSE when it panics
VerifyTransaction(tx, chain) ==
    LET prev == PrevTXsOf([k \in 1..Len(tx.Inputs) |->
                              <<tx.Inputs[k].ID, tx.Inputs[k].Out>>], chain)
    IN  IF ~prev.ok
        THEN [ok |-> FALSE, valid |-> FALSE]
        ELSE Verify(tx, prev.prevTXs)

\* MineTx up to its call of MineBlock, the map memoryPool yielding its ids
\* in the order order: the transactions VerifyTransaction accepts, then the
\* coinbase; res is "panic" when VerifyTransaction panics and "none" when
\* no transaction is accepted
MineTx(pool, order, chain) ==
    LET valid == SelectSeq(order,
                           LAMBDA id : VerifyTransaction(pool[id], chain).valid)
    IN  IF \E k \in 1..Len(order) : ~VerifyTransaction(pool[order[k]], chain).ok
        THEN [res |-> "panic", txs |-> <<>>]
        ELSE IF Len(valid) = 0
        THEN [res |-> "none", txs |-> <<>>]
        ELSE [res |-> "mine",
              txs |-> [k \in 1..Len(valid) |-> pool[valid[k]]]
                      \o <<CoinbaseTx(mineAddress, Nil)>>]

\* what DeleteByPrefix leaves of the block records: its iterator yields
\* every key of the store that begins with the prefix, and AddBlock files a
\* block under its Hash field whatever bytes that holds
KeptBlocks(store) ==
    [h \in {k \in DOMAIN store : k[1] # "utxo-"} |-> store[h]]

\* HandleInv for the block inventory of the peer: the first hash is asked
\* for, the others are in transit
HandleInvStep ==
    /\ lh # Nil
    /\ LET Items == [k \in 1..Len(PeerChain) |-> PeerChain[k].Hash]
       IN  net' = [net EXCEPT !.blocksInTransit =
                       SelectSeq(Items, LAMBDA b : b # Items[1])]
    /\ UNCHANGED <<blocks, lh, LastHash, utxo, last, pow, sig, ret, fs>>

\* HandleBlock: AddBlock of the block received, then either the next block
\* in transit is asked for or Reindex runs.  The message carries a block
\* of the peer's chain, or one whose Hash field is bytes of the sender's
\* choosing, here bytes that begin with the prefix of the index keys
HandleBlockStep ==
    /\ lh # Nil
    /\ \E block \in {PeerChain[k] : k \in 1..Len(PeerChain)}
                     \cup {[PeerChain[2] EXCEPT
                               !.Hash = <<"utxo-", PeerChain[2].Hash>>]} :
          LET added == AddBlock(block, blocks, lh, LastHash)
              wait == Len(net.blocksInTransit) > 0
              kept == KeptBlocks(added.blocks)
              index == Reindex(utxo, added.LastHash, kept)
              res == IF added.res = "panic" \/ wait THEN added.res
                     ELSE IF index.res = "panic" THEN "panic"
                     ELSE added.res
          IN  /\ blocks' = IF added.res = "panic" \/ wait THEN added.blocks
                           ELSE kept
              /\ lh' = added.lh
              /\ LastHash' = IF res = "panic" THEN added.lh ELSE added.LastHash
              /\ utxo' = IF added.res = "panic" \/ wait THEN utxo
                         ELSE index.utxo
              /\ net' = IF res = "panic" THEN NetIdle
                        ELSE IF wait
                        THEN [net EXCEPT !.blocksInTransit = Tail(@)]
                        ELSE net
              /\ last' = [op |-> "HandleBlock", res |-> res, arg |-> block,
                          sync |-> ~wait]
    /\ UNCHANGED <<pow, sig, ret, fs>>

\* HandleTx on a node that mines: the transaction is put in memoryPool
\* under its id and, with two or more in the pool, MineTx is called.  One
\* MineTx runs at a time.  The message carries one of two payments of the
\* genesis coinbase, the first also with its signature blanked, a coinbase,
\* or a payment of an output of a transaction that is in no block
HandleTxStep ==
    /\ lh # Nil
    /\ net.mining = <<>>
    /\ \E tx \in
          LET all == BuildTransaction(
                         WalletKey(GenesisOwner), mineAddress, 100, 100,
                         << <<PrevCoinbase.ID, 0>> >>,
                         [id \in {PrevCoinbase.ID} |-> PrevCoinbase],
                         << <<IntLen, IntLen>> >>).tx
              stray == [PrevPayment EXCEPT !.Inputs[1].ID = UnknownId]
          IN  {PrevPayment, all,
               [PrevPayment EXCEPT !.Inputs[1].Signature = Nil],
               CoinbaseTx(mineAddress, Nil),
               [stray EXCEPT !.ID = Hash(stray)]} :
          LET pool == MapPut(net.memoryPool, tx.ID, tx)
          IN  IF Cardinality(DOMAIN pool) >= 2
              THEN \E order \in Orders(DOMAIN pool) :
                      LET picked == MineTx(pool, order,
                                           IterFrom(LastHash, blocks).blocks)
                      IN  /\ net' = IF picked.res = "panic" THEN NetIdle
                                    ELSE [net EXCEPT !.memoryPool = pool,
                                                     !.mining = picked.txs]
                          /\ LastHash' = IF picked.res = "panic" THEN lh
                                         ELSE LastHash
                          /\ last' = [op |-> "HandleTx", res |-> picked.res,
                                      arg |-> NoBlock, sync |-> FALSE,
                                      pool |-> pool]
              ELSE /\ net' = [net EXCEPT !.memoryPool = pool]
                   /\ LastHash' = LastHash
                   /\ last' = [op |-> "HandleTx", res |-> "pooled",
                               arg |-> NoBlock, sync |-> FALSE, pool |-> pool]
    /\ UNCHANGED <<blocks, lh, utxo, pow, sig, ret, fs>>

\* MineTx from its call of MineBlock on: MineBlock of the list, Reindex,
\* the mined transactions leave the pool, and MineTx again on what is left
MineTxStep ==
    /\ net.mining # <<>>
    /\ LET mined == MineBlock(net.mining, blocks, lh, LastHash)
           kept == KeptBlocks(mined.blocks)
           index == Reindex(utxo, mined.LastHash, kept)
           left == [id \in DOMAIN net.memoryPool
                              \ {net.mining[k].ID : k \in 1..Len(net.mining)}
                       |-> net.memoryPool[id]]
           res == IF mined.res = "panic" THEN "panic" ELSE index.res
       IN  /\ blocks' = IF mined.res = "panic" THEN blocks ELSE kept
           /\ lh' = mined.lh
           /\ LastHash' = IF res = "panic" THEN mined.lh ELSE mined.LastHash
           /\ utxo' = IF mined.res = "panic" THEN utxo ELSE index.utxo
           /\ last' = [op |-> "MineTx", res |-> res, arg |-> mined.block,
                       sync |-> FALSE, txs |-> net.mining]
           /\ IF res = "panic"
              THEN net' = NetIdle
              ELSE \E order \in Orders(DOMAIN left) :
                      net' = [net EXCEPT
                                 !.memoryPool = left,
                                 !.mining = MineTx(left, order,
                                                   IterFrom(mined.LastHash,
                                                            kept).blocks).txs]
    /\ UNCHANGED <<pow, sig, ret, fs>>

\* the CLI's send with -mine, the node not running: NewTransaction, then a
\* coinbase for the sender, MineBlock of the two, and Update with the block
sendStep ==
    /\ lh # Nil
    /\ net = NetIdle
    /\ \E from \in Wallets, order \in Orders(DOMAIN utxo) :
       \E to \in Wallets \ {from},
          pick \in Orders(DOMAIN FindSpendableOutputs(
                              utxo, order, WalletHash(from),
                              SendAmount).unspentOuts) :
          LET tx == NewTransaction(WalletKey(from), WalletAddress(to),
                                   SendAmount, utxo, order, pick,
                                   IterFrom(lh, blocks).blocks)
              cbTx == CoinbaseTx(WalletAddress(from), Nil)
              mined == MineBlock(<<cbTx, tx.tx>>, blocks, lh, lh)
              updated == Update(mined.block, utxo)
              ran == tx.res # "panic" /\ mined.res # "panic"
          IN  /\ blocks' = IF ran THEN mined.blocks ELSE blocks
              /\ lh' = IF ran THEN mined.lh ELSE lh
              /\ LastHash' = IF ran THEN mined.LastHash ELSE lh
              /\ utxo' = IF ran THEN updated.utxo ELSE utxo
              /\ last' = [op |-> "send",
                          res |-> IF ran THEN updated.res ELSE "panic",
                          arg |-> mined.block, sync |-> FALSE,
                          from |-> from, to |-> to,
                          txs |-> IF tx.res = "panic" THEN <<>>
                                  ELSE <<cbTx, tx.tx>>]
    /\ UNCHANGED <<net, pow, sig, ret, fs>>

NextNet ==
    \/ createBlockChainStep
    \/ HandleInvStep
    \/ HandleBlockStep
    \/ HandleTxStep
    \/ MineTxStep
    \/ sendStep

\* a node and the CLI over one database
SpecNet == Init /\ [][NextNet]_vars

(***************************************************************************)
(* Walking the chain.                                                      *)
(***************************************************************************)
\* C22: in every state a fresh iterator returns the tip first and then each
\* block's predecessor, never looks up a hash that is not stored, and ends
\* at a block with an empty PrevHash; GetBlockHashes returns the hashes of
\* these blocks in that order.
C22_IteratorReachesGenesis ==
    lh # Nil =>
        LET it == IterFrom(LastHash, blocks)
            n == Len(it.blocks)
        IN  /\ it.ok
            /\ n >= 1
            /\ it.blocks[1].Hash = LastHash
            /\ \A k \in 1..(n - 1) :
                  /\ it.blocks[k].PrevHash # Nil
                  /\ it.blocks[k + 1].Hash = it.blocks[k].PrevHash
            /\ it.blocks[n].PrevHash = Nil
            /\ GetBlockHashes(LastHash, blocks)
                   = [ok |-> TRUE,
                      blocks |-> [k \in 1..n |-> it.blocks[k].Hash]]

(***************************************************************************)
(* Coinbase transactions.  A transaction is drawn: one CoinbaseTx built,   *)
(* one NewTransaction built over a chain and its index, or one a peer sent *)
(* that differs from a coinbase in one place; then IsCoinbase, Verify or   *)
(* Sign is called on it.                                                   *)
(***************************************************************************)
InitCoinbase ==
    LET StoreOf(chain) ==
            [h \in {chain[k].Hash : k \in 1..Len(chain)} |->
                Serialize(CHOOSE b \in {chain[k] : k \in 1..Len(chain)} :
                              b.Hash = h)]
        chains == {SubSeq(PeerChain, 3, 3), SubSeq(PeerChain, 2, 3)}
        IndexOf(chain) == Reindex(<<>>, chain[1].Hash, StoreOf(chain)).utxo
        Picks(chain, w, amount, order) ==
            Orders(DOMAIN FindSpendableOutputs(IndexOf(chain), order,
                                               WalletHash(w),
                                               amount).unspentOuts)
        built == UNION {UNION {{NewTransaction(
                                    WalletKey(c[2]),
                                    WalletAddress(CHOOSE w \in Wallets :
                                                      w # c[2]),
                                    c[3], IndexOf(c[1]), order, pick, c[1]) :
                                pick \in Picks(c[1], c[2], c[3], order)} :
                               order \in Orders(DOMAIN IndexOf(c[1]))} :
                        c \in chains \X Wallets \X (Amounts \cup {0})}
        cb == CoinbaseTx(mineAddress, Nil)
    IN  /\ blocks = <<>>
        /\ lh = Nil
        /\ LastHash = Nil
        /\ utxo = <<>>
        /\ last = [op |-> "none", res |-> "none", arg |-> NoBlock,
                   sync |-> FALSE]
        /\ pow = PowIdle
        /\ ret = NoRet
        /\ net = NetIdle
        /\ fs = FsIdle
        /\ sig \in {[SigIdle EXCEPT !.tx = CoinbaseTx(WalletAddress(w), d),
                                    !.mut = "CoinbaseTx"] :
                       w \in Wallets, d \in {Nil, genesisData}}
                   \cup {[SigIdle EXCEPT !.tx = b.tx,
                                         !.mut = "NewTransaction"] :
                            b \in {x \in built : x.res = "ok"}}
                   \cup {[SigIdle EXCEPT !.tx = t, !.mut = "received"] :
                            t \in {[cb EXCEPT !.Inputs[1].Out = 0],
                                   [cb EXCEPT !.Inputs[1].ID = UnknownId],
                                   [cb EXCEPT !.Inputs = @ \o @],
                                   [cb EXCEPT !.Inputs = <<>>]}}

\* IsCoinbase on the transaction
IsCoinbaseStep ==
    /\ sig.mut # "none"
    /\ ret' = [op |-> "IsCoinbase", res |-> IsCoinbase(sig.tx)]
    /\ UNCHANGED <<blocks, lh, LastHash, utxo, last, pow, sig, net, fs>>

\* the maps of referenced transactions Verify and Sign may be handed
CoinbasePrevTXs ==
    {<<>>, SigPrevTXs, [id \in {UnknownId} |-> PrevCoinbase]}

\* Verify on the transaction with some map of referenced transactions
VerifyCoinbaseStep ==
    /\ sig.mut # "none"
    /\ \E prevTXs \in CoinbasePrevTXs :
          ret' = [op |-> "Verify", prevTXs |-> prevTXs,
                  res |-> Verify(sig.tx, prevTXs)]
    /\ UNCHANGED <<blocks, lh, LastHash, utxo, last, pow, sig, net, fs>>

\* Sign on the transaction with some key and some map
SignCoinbaseStep ==
    /\ sig.mut # "none"
    /\ \E prevTXs \in CoinbasePrevTXs, w \in Wallets :
          ret' = [op |-> "Sign", prevTXs |-> prevTXs,
                  res |-> Sign(sig.tx, WalletKey(w), prevTXs,
                               [k \in 1..Len(sig.tx.Inputs) |->
                                   <<IntLen, IntLen>>])]
    /\ UNCHANGED <<blocks, lh, LastHash, utxo, last, pow, sig, net, fs>>

NextCoinbase == IsCoinbaseStep \/ VerifyCoinbaseStep \/ SignCoinbaseStep

\* IsCoinbase, Verify and Sign on a drawn transaction
SpecCoinbase == InitCoinbase /\ [][NextCoinbase]_vars

\* C23: IsCoinbase is true exactly of a transaction with one input whose
\* referenced id is empty and whose referenced output index is -1; it is
\* true of every transaction CoinbaseTx builds and of none NewTransaction
\* builds.
C23_IsCoinbaseShape ==
    ret.op = "IsCoinbase" =>
        /\ ret.res <=> /\ Len(sig.tx.Inputs) = 1
                       /\ Len(sig.tx.Inputs[1].ID) = 0
                       /\ sig.tx.Inputs[1].Out = -1
        /\ sig.mut = "CoinbaseTx" => ret.res
        /\ sig.mut = "NewTransaction" => ~ret.res

\* IsCoinbase has answered for a transaction NewTransaction built with one
\* input
C23_Witness ==
    /\ ret.op = "IsCoinbase"
    /\ sig.mut = "NewTransaction"
    /\ Len(sig.tx.Inputs) = 1
    /\ ~ret.res

\* C24: for a coinbase transaction Verify returns true whatever the map of
\* referenced transactions holds, the empty map included, and Sign leaves
\* the transaction as it was.
C24_CoinbaseSkipsSignatures ==
    (ret.op \in {"Verify", "Sign"} /\ sig.mut = "CoinbaseTx") =>
        /\ ret.res.ok
        /\ ret.op = "Verify" => ret.res.valid
        /\ ret.op = "Sign" => ret.res.tx = sig.tx

\* Verify has returned true for a coinbase and an empty map
C24_Witness ==
    /\ ret.op = "Verify"
    /\ sig.mut = "CoinbaseTx"
    /\ ret.prevTXs = <<>>
    /\ ret.res.valid

(***************************************************************************)
(* The ledger end to end.                                                  *)
(***************************************************************************)
\* C25: once the chain is created with a genesis coinbase of 100 to A, the
\* best height is 0 and A's unspent outputs are one output of 100; once a
\* transaction of SendAmount from A to B is then built and mined, the best
\* height is 1, B's unspent outputs total SendAmount and
\* FindSpendableOutputs for A and the rest of the 100 accumulates that rest.
C25_GenesisThenPayment ==
    [][/\ last'.op = "createBlockChain" =>
              /\ GetBestHeight(blocks', lh') = [ok |-> TRUE, height |-> 0]
              /\ \A order \in Orders(DOMAIN utxo') :
                    LET outs == FindUnspentTransactions(
                                    utxo', order, 1, WalletHash(GenesisOwner))
                    IN  Len(outs) = 1 /\ outs[1].Value = 100
       /\ (/\ last.op = "createBlockChain"
           /\ last'.op = "send"
           /\ last'.from = GenesisOwner) =>
              /\ GetBestHeight(blocks', lh') = [ok |-> TRUE, height |-> 1]
              /\ \A order \in Orders(DOMAIN utxo') :
                    /\ SumOutputs(FindUnspentTransactions(
                                      utxo', order, 1, WalletHash(last'.to)),
                                  1) = SendAmount
                    /\ FindSpendableOutputs(
                           utxo', order, WalletHash(GenesisOwner),
                           100 - SendAmount).accumulated = 100 - SendAmount]_vars

(***************************************************************************)
(* The tip under interleaved handlers.                                     *)
(***************************************************************************)
\* C26: with a handler mining while another delivers a block, whenever the
\* tip is written the new tip is a stored block no lower than any stored
\* block and its PrevHash is the tip that was current when it was written.
C26_TipFollowsTip ==
    [][(lh # Nil /\ lh' # lh) =>
          /\ lh' \in DOMAIN blocks'
          /\ \A h \in DOMAIN blocks' :
                Deserialize(blocks'[h]).block.Height
                    <= Deserialize(blocks'[lh']).block.Height
          /\ Deserialize(blocks'[lh']).block.PrevHash = lh]_vars

(***************************************************************************)
(* The block records.                                                      *)
(***************************************************************************)
\* C27: the block store is append-only: a record stored under a hash is
\* neither changed nor deleted by any later AddBlock, MineBlock, Update or
\* Reindex.
C27_BlockStoreAppendOnly ==
    [][\A h \in DOMAIN blocks :
          /\ h \in DOMAIN blocks'
          /\ blocks'[h] = blocks[h]]_vars

(***************************************************************************)
(* Mining.                                                                 *)
(***************************************************************************)
\* C28: every block a mining path produces holds exactly one coinbase,
\* whatever the memory pool has received: the genesis block, the list the
\* CLI's send hands to MineBlock, the list MineTx hands to MineBlock, and
\* the block MineBlock returns.
C28_OneCoinbasePerMinedBlock ==
    LET Coinbases(txs) == {k \in 1..Len(txs) : IsCoinbase(txs[k])}
    IN  /\ last.op = "createBlockChain" =>
               Cardinality(Coinbases(StoredBlock(lh).Transactions)) = 1
        /\ net.mining # <<>> => Cardinality(Coinbases(net.mining)) = 1
        /\ (last.op \in {"send", "MineTx"} /\ last.txs # <<>>) =>
               Cardinality(Coinbases(last.txs)) = 1
        /\ (last.op \in {"send", "MineTx"} /\ last.res # "panic") =>
               Cardinality(Coinbases(last.arg.Transactions)) = 1

\* MineTx is about to hand MineBlock two transactions of the pool and its
\* coinbase
C28_Witness ==
    /\ Len(net.mining) = 3
    /\ Cardinality(DOMAIN net.memoryPool) >= 2
    /\ IsCoinbase(net.mining[3])

\* C29: when the pool MineTx goes through holds a transaction with an input
\* that references a transaction id no block of the chain holds,
\* VerifyTransaction answers no without aborting: MineTx leaves that
\* transaction out and the ledger is as it was.
C29_UnknownReferenceIsSkipped ==
    [][(/\ last'.op = "HandleTx"
        /\ Cardinality(DOMAIN last'.pool) >= 2
        /\ IterFrom(LastHash, blocks).ok) =>
          LET chain == IterFrom(LastHash, blocks).blocks
              Stray(tx) == \E k \in 1..Len(tx.Inputs) :
                              /\ Len(tx.Inputs[k].ID) > 0
                              /\ tx.Inputs[k].ID \notin ChainIds(chain)
          IN  (\E id \in DOMAIN last'.pool : Stray(last'.pool[id])) =>
                  /\ last'.res # "panic"
                  /\ \A k \in 1..Len(net'.mining) : ~Stray(net'.mining[k])
                  /\ blocks' = blocks /\ lh' = lh /\ utxo' = utxo]_vars

(***************************************************************************)
(* Opening the database.  What badger.Open and os.Remove answer is up to   *)
(* the library and the file system: any of their outcomes may follow any   *)
(* state of the directory.  An error is the words of its message; fs       *)
(* counts the calls of badger.Open and records what each call answered.    *)
(***************************************************************************)
\* an openDB that retries after every failure
IsLockErrorAny(err) == TRUE

\* openDB's test on the first error: its message contains "LOCK"
IsLockError(err) == \E k \in DOMAIN err : err[k] = "LOCK"

\* InitBlockChain or ContinueBlockChain is about to call openDB on the
\* directory of some node
InitOpen ==
    /\ blocks = <<>>
    /\ lh = Nil
    /\ LastHash = Nil
    /\ utxo = <<>>
    /\ last = [op |-> "none", res |-> "none", arg |-> NoBlock, sync |-> FALSE]
    /\ pow = PowIdle
    /\ sig = SigIdle
    /\ ret = NoRet
    /\ net = NetIdle
    /\ fs \in {[phase |-> "start", dir |-> <<"./tmp/blocks_", nodeId>>,
                caller |-> caller, opens |-> 0, removed |-> FALSE,
                first |-> Nil, second |-> Nil, db |-> FALSE, err |-> Nil] :
                  nodeId \in {"3000", "3001"},
                  caller \in {"InitBlockChain", "ContinueBlockChain"}}

\* openDB up to its test of the first error: badger.Open succeeds, or fails
\* with some message
openDBStep ==
    /\ fs.phase = "start"
    /\ \E err \in {Nil,
                   <<"Cannot acquire directory lock on", fs.dir, "LOCK",
                     "Another process is using this Badger database">>,
                   <<"Cannot create lock file", fs.dir, "LOCK">>,
                   <<"manifest has bad magic">>,
                   <<"open", fs.dir, "permission denied">>} :
          fs' = [fs EXCEPT !.opens = @ + 1,
                           !.first = err,
                           !.db = err = Nil,
                           !.err = IF err = Nil \/ IsLockError(err) THEN Nil
                                   ELSE err,
                           !.phase = IF err # Nil /\ IsLockError(err)
                                     THEN "retry" ELSE "returned"]
    /\ UNCHANGED <<blocks, lh, LastHash, utxo, last, pow, sig, ret, net>>

\* retry and what openDB does with its answer: the LOCK file is removed and
\* badger.Open is called again; when either fails openDB returns the first
\* error
retryStep ==
    /\ fs.phase = "retry"
    /\ \E removal \in {Nil,
                       <<"remove", fs.dir, "LOCK", "no such file or directory">>,
                       <<"remove", fs.dir, "LOCK", "permission denied">>},
          err \in {Nil,
                   <<"Cannot acquire directory lock on", fs.dir, "LOCK",
                     "Another process is using this Badger database">>,
                   <<"manifest has bad magic">>} :
          IF removal # Nil
          THEN fs' = [fs EXCEPT !.second = <<"removing LOCK">> \o removal,
                                !.err = fs.first,
                                !.phase = "returned"]
          ELSE fs' = [fs EXCEPT !.removed = TRUE,
                                !.opens = @ + 1,
                                !.second = err,
                                !.db = err = Nil,
                                !.err = IF err = Nil THEN Nil ELSE fs.first,
                                !.phase = "returned"]
    /\ UNCHANGED <<blocks, lh, LastHash, utxo, last, pow, sig, ret, net>>

\* the caller's Handle(err) on what openDB returned
HandleOpenStep ==
    /\ fs.phase = "returned"
    /\ fs' = [fs EXCEPT !.phase = IF fs.err = Nil THEN "open" ELSE "panic"]
    /\ UNCHANGED <<blocks, lh, LastHash, utxo, last, pow, sig, ret, net>>

NextOpen == openDBStep \/ retryStep \/ HandleOpenStep

\* one call of openDB
SpecOpen == InitOpen /\ [][NextOpen]_vars

\* C30: openDB calls badger.Open at most twice; the second call is made
\* after the LOCK file was removed and only when the first call failed with
\* a message that names the lock; any other failure, a failed removal and a
\* failed second call are returned as an error, with no further call.
C30_OpenRetriesOnce ==
    fs.phase # "idle" =>
        LET locked == \E k \in DOMAIN fs.first : fs.first[k] = "LOCK"
        IN  /\ fs.opens <= 2
            /\ fs.opens = 2 => locked /\ fs.removed
            /\ fs.removed => locked /\ fs.opens = 2
            /\ fs.phase \in {"returned", "open", "panic"} =>
                  /\ fs.opens >= 1
                  /\ locked => (fs.opens = 2 <=> fs.removed)
                  /\ fs.db <=> \/ fs.first = Nil
                               \/ fs.opens = 2 /\ fs.second = Nil
                  /\ fs.db <=> fs.err = Nil
                  /\ ~fs.db => fs.err = fs.first

\* openDB has returned the database its second call opened
C30_Witness ==
    /\ fs.phase = "returned"
    /\ fs.opens = 2
    /\ fs.removed
    /\ fs.db

(***************************************************************************)
(* The halves of a signature and of a public key.                          *)
(***************************************************************************)
\* C31: for every r and s Sign produces and every X and Y NewKeyPair
\* produces, the two equal halves Verify cuts the stored string into are
\* the bytes of r and the bytes of s (of X and of Y), whatever the lengths
\* of the encodings of the integers.
C31_HalvesRecoverIntegers ==
    sig.phase = "signed" =>
        \A k \in 1..Len(sig.tx.Inputs) :
            LET in == sig.tx.Inputs[k]
                Bytes(str, kind) == SelectSeq(str, LAMBDA b : b[1] = kind)
            IN  /\ SetBytes(FirstHalf(in.Signature)) = Bytes(in.Signature, "r")
                /\ SetBytes(SecondHalf(in.Signature)) = Bytes(in.Signature, "s")
                /\ SetBytes(FirstHalf(in.PubKey)) = Bytes(in.PubKey, "X")
                /\ SetBytes(SecondHalf(in.PubKey)) = Bytes(in.PubKey, "Y")

C33_RewardsAreDistinct ==
    lh # Nil =>
        LET Reward(b) == b.Transactions[1]
            Spent(w) == \E p \in ChainOutputs(Chain) :
                           \E k \in 1..Len(TxAt(Chain, p).Inputs) :
                              /\ ~IsCoinbase(TxAt(Chain, p))
                              /\ UsesKey(TxAt(Chain, p).Inputs[k], WalletHash(w))
            Paid(w) == {i \in 1..Len(Chain) :
                           Reward(Chain[i]).Outputs[1].PubKeyHash = WalletHash(w)}
            Held(w) == {id \in DOMAIN utxo :
                           \E k \in 1..Len(DecodedIndex(utxo)[id]) :
                              /\ DecodedIndex(utxo)[id][k].Value = 100
                              /\ DecodedIndex(utxo)[id][k].PubKeyHash
                                     = WalletHash(w)}
        IN  /\ \A i \in 1..Len(Chain), j \in 1..Len(Chain) :
                  Reward(Chain[i]).ID = Reward(Chain[j]).ID => i = j
            /\ (/\ last.res = "ok"
                /\ \/ last.op \in {"Reindex", "createBlockChain"}
                   \/ last.op = "Update" /\ last.sync) =>
                  \A w \in Wallets :
                      ~Spent(w) =>
                          /\ Cardinality(Held(w)) = Cardinality(Paid(w))
                          /\ \A order \in Orders(DOMAIN utxo) :
                                Len(SelectSeq(
                                        FindUnspentTransactions(
                                            utxo, order, 1, WalletHash(w)),
                                        LAMBDA out : out.Value = 100))
                                    = Cardinality(Paid(w))

C35_IndexAndChainApart ==
    [][/\ (/\ last'.op = "HandleBlock"
           /\ last'.sync
           /\ last'.res # "panic"
           /\ net' = net) =>
              LET added == AddBlock(last'.arg, blocks, lh, LastHash)
              IN  blocks' = added.blocks /\ lh' = added.lh
       /\ (last'.op = "HandleBlock" /\ ~last'.sync) => utxo' = utxo
       /\ (last'.op \in {"MineTx", "send"} /\ last'.res = "panic") =>
              utxo' = utxo]_vars

(***************************************************************************)
(* The two tips.                                                           *)
(***************************************************************************)
\* C36: after every InitBlockChain, ContinueBlockChain, AddBlock and
\* MineBlock the LastHash of the BlockChain value is the stored tip pointer,
\* so an iterator starts at the block whose height GetBestHeight returns.
C36_LastHashIsStoredTip ==
    /\ LastHash = lh
    /\ (lh # Nil /\ GetBestHeight(blocks, lh).ok) =>
           /\ IterFrom(LastHash, blocks).blocks # <<>>
           /\ IterFrom(LastHash, blocks).blocks[1].Height
                  = GetBestHeight(blocks, lh).height

\* AddBlock has made the block it was given the tip
C36_Witness ==
    /\ last.op = "HandleBlock"
    /\ last.res = "tip"
    /\ lh = last.arg.Hash
    /\ LastHash = last.arg.Hash
    /\ GetBestHeight(blocks, lh).ok

(***************************************************************************)
(* MineTx from call to return.                                             *)
(***************************************************************************)
\* C37: every call of MineTx returns: the HandleTx that calls it does not
\* end in a panic, and the MineTx that goes on to MineBlock was handed
\* transactions of the pool that VerifyTransaction accepts followed by one
\* coinbase, does not end in a panic, and leaves none of the transactions
\* it mined in the pool.
C37_MineTxReturns ==
    [][/\ (net.mining = <<>> /\ last'.op = "HandleTx" /\ last' # last) =>
              last'.res # "panic"
       /\ (net.mining # <<>> /\ last'.op = "MineTx"
             /\ net'.mining # net.mining) =>
              LET txs == last'.txs
                  chain == IterFrom(LastHash, blocks).blocks
              IN  /\ last'.res # "panic"
                  /\ IsCoinbase(txs[Len(txs)])
                  /\ \A k \in 1..(Len(txs) - 1) :
                        /\ txs[k].ID \in DOMAIN net.memoryPool
                        /\ VerifyTransaction(txs[k], chain).valid
                  /\ \A k \in 1..Len(txs) :
                        txs[k].ID \notin DOMAIN net'.memoryPool]_vars

(***************************************************************************)
(* Block synchronisation.  A peer announces its height in a version        *)
(* message; the node asks for its block hashes, then for each block.  Here *)
(* net also holds the peer's chain, the message under way, the inventory   *)
(* the peer sent, the hashes SendGetData has asked for and the block the   *)
(* peer answers with.                                                      *)
(***************************************************************************)
RECURSIVE PeerChainOf(_, _, _)
\* the chain, tip first, of n blocks that a peer holds: the genesis block
\* of the wallet w and over it blocks that carry the coinbase of the miner m
PeerChainOf(w, m, n) ==
    IF n = 1
    THEN <<Genesis(CoinbaseTx(WalletAddress(w), genesisData)).block>>
    ELSE LET c == PeerChainOf(w, m, n - 1)
         IN  <<PeerBlock(c, m, <<>>)>> \o c

\* the chains of the peers that send a version message
SyncPeers ==
    {PeerChain} \cup {PeerChainOf(w, m, n) : w \in Wallets, m \in Wallets,
                                             n \in 1..MaxChain}

\* a HandleInv that leaves the hash it asks for in transit
HandleInvKeepAll(Items) ==
    [request |-> Items[1], blocksInTransit |-> Items]

\* HandleInv of a block inventory: the first hash is asked for with
\* SendGetData and every other hash stays in blocksInTransit
HandleInv(Items) ==
    [request |-> Items[1],
     blocksInTransit |-> SelectSeq(Items, LAMBDA b : b # Items[1])]

\* HandleVersion: GetBestHeight against the height the peer announces;
\* SendGetBlocks when the peer's is greater, SendVersion when it is less
HandleVersionStep ==
    /\ lh # Nil
    /\ IF net = NetIdle THEN TRUE ELSE net.msg = "none"
    /\ \E peer \in SyncPeers :
          LET bestHeight == GetBestHeight(blocks, lh)
              otherHeight == peer[1].Height
              res == IF ~bestHeight.ok THEN "panic"
                     ELSE IF bestHeight.height < otherHeight THEN "getblocks"
                     ELSE IF bestHeight.height > otherHeight THEN "version"
                     ELSE "none"
          IN  /\ net' = IF res = "panic" THEN NetIdle
                        ELSE [blocksInTransit |-> <<>>, memoryPool |-> <<>>,
                              mining |-> <<>>, peer |-> peer,
                              msg |-> IF res = "getblocks" THEN res
                                      ELSE "none",
                              Items |-> <<>>, requested |-> <<>>,
                              block |-> NoBlock]
              /\ last' = [op |-> "HandleVersion", res |-> res,
                          arg |-> NoBlock, sync |-> FALSE]
    /\ UNCHANGED <<blocks, lh, LastHash, utxo, pow, sig, ret, fs>>

\* the peer's HandleGetBlocks: SendInv of its GetBlockHashes
HandleGetBlocksStep ==
    /\ net # NetIdle
    /\ net.msg = "getblocks"
    /\ LET store == [h \in {net.peer[k].Hash : k \in 1..Len(net.peer)} |->
                        Serialize(CHOOSE b \in {net.peer[k] :
                                                k \in 1..Len(net.peer)} :
                                      b.Hash = h)]
       IN  net' = [net EXCEPT
                      !.msg = "inv",
                      !.Items = GetBlockHashes(net.peer[1].Hash, store).blocks]
    /\ UNCHANGED <<blocks, lh, LastHash, utxo, last, pow, sig, ret, fs>>

\* HandleInv of the inventory the peer sent
HandleInvOfPeerStep ==
    /\ net # NetIdle
    /\ net.msg = "inv"
    /\ LET inv == HandleInv(net.Items)
       IN  net' = [net EXCEPT !.msg = "getdata",
                              !.blocksInTransit = inv.blocksInTransit,
                              !.requested = <<inv.request>>]
    /\ UNCHANGED <<blocks, lh, LastHash, utxo, last, pow, sig, ret, fs>>

\* the peer's HandleGetData for the hash asked for last: GetBlock, then
\* SendBlock
HandleGetDataStep ==
    /\ net # NetIdle
    /\ net.msg = "getdata"
    /\ LET ID == net.requested[Len(net.requested)]
       IN  \E k \in 1..Len(net.peer) :
              /\ net.peer[k].Hash = ID
              /\ net' = [net EXCEPT !.msg = "block", !.block = net.peer[k]]
    /\ UNCHANGED <<blocks, lh, LastHash, utxo, last, pow, sig, ret, fs>>

\* HandleBlock of the block the peer answered with: AddBlock, then
\* SendGetData for the first hash in transit, or Reindex when none is left
HandleBlockOfPeerStep ==
    /\ net # NetIdle
    /\ net.msg = "block"
    /\ LET added == AddBlock(net.block, blocks, lh, LastHash)
           wait == Len(net.blocksInTransit) > 0
           kept == KeptBlocks(added.blocks)
           index == Reindex(utxo, added.LastHash, kept)
           res == IF added.res = "panic" \/ wait THEN added.res
                  ELSE IF index.res = "panic" THEN "panic"
                  ELSE added.res
       IN  /\ blocks' = IF added.res = "panic" \/ wait THEN added.blocks
                        ELSE kept
           /\ lh' = added.lh
           /\ LastHash' = IF res = "panic" THEN added.lh ELSE added.LastHash
           /\ utxo' = IF added.res = "panic" \/ wait THEN utxo
                      ELSE index.utxo
           /\ net' = IF res = "panic" THEN NetIdle
                     ELSE IF wait
                     THEN [net EXCEPT
                              !.msg = "getdata",
                              !.requested = Append(@, net.blocksInTransit[1]),
                              !.blocksInTransit = Tail(@),
                              !.block = NoBlock]
                     ELSE [net EXCEPT !.msg = "none", !.block = NoBlock]
           /\ last' = [op |-> "HandleBlock", res |-> res, arg |-> net.block,
                       sync |-> ~wait]
    /\ UNCHANGED <<pow, sig, ret, fs>>

NextSync ==
    \/ createBlockChainStep
    \/ HandleVersionStep
    \/ HandleGetBlocksStep
    \/ HandleInvOfPeerStep
    \/ HandleGetDataStep
    \/ HandleBlockOfPeerStep

\* a node that follows the peers that announce themselves
SpecSync == Init /\ [][NextSync]_vars

\* C38: while a node fetches the blocks of an inventory no hash is asked
\* for twice, and when the last block has been delivered every announced
\* hash has been asked for once, the tip and LastHash are the peer's tip,
\* the iterator returns the peer's chain down to its genesis block, and
\* the index is what Reindex makes of that chain.
C38_SyncReachesPeerTip ==
    (net # NetIdle /\ net.Items # <<>>) =>
        /\ \A j, k \in 1..Len(net.requested) :
              net.requested[j] = net.requested[k] => j = k
        /\ (net.msg = "none" /\ last.op = "HandleBlock") =>
              /\ last.res # "panic"
              /\ Len(net.requested) = Len(net.Items)
              /\ \A k \in 1..Len(net.Items) :
                    \E j \in 1..Len(net.requested) :
                       net.requested[j] = net.Items[k]
              /\ lh = net.peer[1].Hash
              /\ LastHash = net.peer[1].Hash
              /\ IterFrom(LastHash, blocks) =
                     [ok |-> TRUE, blocks |-> net.peer]
              /\ Reindex(<<>>, LastHash, blocks) =
                     [res |-> "ok", utxo |-> utxo]

\* a node that held a chain of its own has fetched a longer one of three
\* blocks
C38_Witness ==
    /\ net # NetIdle
    /\ net.msg = "none"
    /\ last.op = "HandleBlock"
    /\ last.sync
    /\ Len(net.requested) = 3
    /\ lh = net.peer[1].Hash
    /\ Cardinality(DOMAIN blocks) > 3
====
